---- MODULE Spec2Model ----
(***************************************************************************)
(* Model of the EVM chaincode (evmcc): the Invoke handler, the state       *)
(* manager it hands to the VM, and the event manager that buffers the      *)
(* VM's log events.  The VM itself is a black box: while it runs it may    *)
(* call any hook of the state manager and publish any event, and it then   *)
(* returns an output or an error.                                          *)
(*                                                                         *)
(* Go strings and byte slices that the code slices, compares, lowercases   *)
(* or hex-encodes are sequences: a string is a sequence of one-character   *)
(* strings, a byte slice a sequence of numbers in 0..255.                  *)
(***************************************************************************)
EXTENDS Integers, Sequences, FiniteSets, TLC

(* ------------------------------ bounds --------------------------------- *)

\* invocations in one behaviour (each carries a fresh transaction id)
MaxTx == 2

\* hook calls the VM makes in one behaviour, over all its executions
MaxVMCalls == 2

\* blocks of the channel when the gateway starts
HistoryBlocks == 10

\* logs in a list of logs handed to CreateBloom
MaxLogs == 2

\* getBlockByNumber("latest") requests the gateway serves at the same time
MaxRequests == 2

\* blocks other clients append to the channel while the requests are served
MaxAppend == 2

(* ------------------------- program constants --------------------------- *)

\* length of an address in bytes
AddressLength == 20

\* length of a storage word in bytes
Word256Length == 32

\* characters of the input that name the event of a call
SelectorChars == 8

\* bytes of the contract address that name the event of a deploy
EventNameBytes == 4

\* hex digits of the largest unsigned 64-bit number
Uint64HexDigits == 16

(* ------------------------------ strings -------------------------------- *)

HexLower == <<"0","1","2","3","4","5","6","7","8","9","a","b","c","d","e","f">>

HexUpper == <<"0","1","2","3","4","5","6","7","8","9","A","B","C","D","E","F">>

UpperLetters == <<"A","B","C","D","E","F","G","H","I","J","K","L","M","N","O","P","Q","R","S","T","U","V","W","X","Y","Z">>

LowerLetters == <<"a","b","c","d","e","f","g","h","i","j","k","l","m","n","o","p","q","r","s","t","u","v","w","x","y","z">>

\* strings.ToLower on one character
ToLowerChar(c) ==
    IF \E i \in 1..Len(UpperLetters) : UpperLetters[i] = c
    THEN LowerLetters[CHOOSE i \in 1..Len(UpperLetters) : UpperLetters[i] = c]
    ELSE c

\* strings.ToLower
ToLower(s) == [i \in 1..Len(s) |-> ToLowerChar(s[i])]

\* the nibbles of a byte slice, high nibble first
Nibble(b, i) == IF i % 2 = 1 THEN b[(i + 1) \div 2] \div 16 ELSE b[i \div 2] % 16

\* hex.EncodeToString: lowercase digits
EncodeToString(b) == [i \in 1..(2 * Len(b)) |-> HexLower[Nibble(b, i) + 1]]

\* Address.String of the VM library: uppercase digits
EncodeUpperToString(b) == [i \in 1..(2 * Len(b)) |-> HexUpper[Nibble(b, i) + 1]]

\* value of a hex digit of either case, -1 for any other character
FromHexChar(c) ==
    IF \E i \in 1..16 : HexLower[i] = c THEN (CHOOSE i \in 1..16 : HexLower[i] = c) - 1
    ELSE IF \E i \in 1..16 : HexUpper[i] = c THEN (CHOOSE i \in 1..16 : HexUpper[i] = c) - 1
    ELSE -1

\* hex.DecodeString: fails on an odd length or on a character that is no hex digit
DecodeString(s) ==
    IF Len(s) % 2 = 1 \/ (\E i \in 1..Len(s) : FromHexChar(s[i]) = -1)
    THEN [err |-> TRUE, val |-> <<>>]
    ELSE [err |-> FALSE,
          val |-> [i \in 1..(Len(s) \div 2) |->
                      16 * FromHexChar(s[2 * i - 1]) + FromHexChar(s[2 * i])]]

\* the Go slice expression s[lo:hi] (0-based, hi exclusive); the caller checks hi <= len(s)
Slice(s, lo, hi) == [i \in 1..(hi - lo) |-> s[lo + i]]

\* strings.HasPrefix
HasPrefix(s, p) == Len(s) >= Len(p) /\ \A i \in 1..Len(p) : s[i] = p[i]

(* ----------------------------- addresses -------------------------------- *)

\* flags Call | Send | CreateContract of the VM library's permission bitset
ContractPermFlags == 14

\* crypto.ZeroAddress
ZeroAddress == [i \in 1..AddressLength |-> 0]

\* a nonce that leaves the transaction id out
NonceOfCaller(caller, txid) == <<caller[1]>>

\* The digests of the VM library are not computed here.  They are modelled as
\* collision-free on the inputs of the model: the digest keeps the bytes that
\* tell two inputs apart.  crypto.Nonce(caller, txid) = sha256(caller || txid).
Nonce(caller, txid) == <<caller[1]>> \o txid

\* crypto.NewContractAddress(caller, nonce): the first bytes of
\* sha256(caller || nonce), as an address
NewContractAddress(caller, nonce) ==
    [i \in 1..AddressLength |->
        IF i = 1 THEN 192 + (caller[1] % 16)
        ELSE IF i <= 1 + Len(nonce) THEN nonce[i - 1]
        ELSE 239]

\* crypto.AddressFromBytes: fails unless the slice has the length of an address
AddressFromBytes(b) ==
    IF Len(b) # AddressLength
    THEN [err |-> TRUE, val |-> ZeroAddress]
    ELSE [err |-> FALSE, val |-> b]

\* The serialized identities a transaction may carry: two with a certificate,
\* one without PEM data.
Creators == {"user0", "user1", "nopem"}

\* address.IdentityToAddr: the low bytes of the hash of the DER-encoded public
\* key of the creator's certificate (the hash is modelled as collision-free)
IdentityToAddr(creator) ==
    IF creator = "nopem"
    THEN [err |-> TRUE, val |-> <<>>]
    ELSE [err |-> FALSE,
          val |-> [i \in 1..AddressLength |->
                      IF i = 1 THEN (IF creator = "user0" THEN 171 ELSE 186)
                      ELSE 205]]

(* ------------------------------ accounts ------------------------------- *)

\* a nil *acm.Account
NilAccount == [nil |-> TRUE, Address |-> <<>>, Permissions |-> 0, EVMCode |-> <<>>]

\* &acm.Account{Address: a, Permissions: p, EVMCode: c}
Account(a, p, c) == [nil |-> FALSE, Address |-> a, Permissions |-> p, EVMCode |-> c]

\* Account.Marshal: address, permissions, code, in one byte slice
Marshal(acc) == acc.Address \o <<acc.Permissions>> \o acc.EVMCode

\* Account.Unmarshal: fails on a slice too short to hold an address and permissions
Unmarshal(b) ==
    IF Len(b) < AddressLength + 1
    THEN [err |-> TRUE, acct |-> NilAccount]
    ELSE [err |-> FALSE,
          acct |-> Account(Slice(b, 0, AddressLength), b[AddressLength + 1],
                           Slice(b, AddressLength + 1, Len(b)))]

(* ------------------------- the ledger stub ----------------------------- *)

\* stub.GetState on the ledger map: a missing key reads as the empty slice
StubGetState(l, key) == IF key \in DOMAIN l THEN l[key] ELSE <<>>

\* stub.PutState on the ledger map
StubPutState(l, key, value) ==
    [k \in (DOMAIN l) \cup {key} |-> IF k = key THEN value ELSE l[k]]

\* stub.DelState on the ledger map
StubDelState(l, key) == [k \in (DOMAIN l) \ {key} |-> l[k]]

(* --------------------------- state manager ----------------------------- *)

\* the ledger key of an account as the state manager reads and deletes it
AccountKey(address) == ToLower(EncodeUpperToString(address))

\* the composite ledger key of a storage cell
CompKey(address, key) == AccountKey(address) \o EncodeToString(key)

\* stateManager.GetAccount; stubOk is whether the stub's GetState succeeds
GetAccount(l, address, stubOk) ==
    LET acctBytes == StubGetState(l, AccountKey(address)) IN
    IF ~stubOk THEN [err |-> TRUE, acct |-> NilAccount]
    ELSE IF Len(acctBytes) = 0 THEN [err |-> FALSE, acct |-> NilAccount]
    ELSE Unmarshal(acctBytes)

\* stateManager.GetStorage: the cache first, then the ledger
GetStorage(l, c, address, key, stubOk) ==
    LET compKey == CompKey(address, key) IN
    IF compKey \in DOMAIN c THEN [err |-> FALSE, val |-> c[compKey]]
    ELSE IF ~stubOk THEN [err |-> TRUE, val |-> <<>>]
    ELSE [err |-> FALSE, val |-> StubGetState(l, compKey)]

\* a SetStorage that caches the value before it writes it
SetStorageCacheFirst(l, c, address, key, value, stubOk) ==
    LET compKey == CompKey(address, key) IN
    IF Len(value) = 0
    THEN [err |-> ~stubOk,
          ledger |-> IF stubOk THEN StubDelState(l, compKey) ELSE l,
          cache |-> c]
    ELSE [err |-> ~stubOk,
          ledger |-> IF stubOk THEN StubPutState(l, compKey, value) ELSE l,
          cache |-> [k \in (DOMAIN c) \cup {compKey} |->
                        IF k = compKey THEN value ELSE c[k]]]

\* stateManager.SetStorage: an empty value deletes the ledger key and returns;
\* any other value is written and, if the write succeeded, cached
SetStorage(l, c, address, key, value, stubOk) ==
    LET compKey == CompKey(address, key) IN
    IF Len(value) = 0
    THEN [err |-> ~stubOk,
          ledger |-> IF stubOk THEN StubDelState(l, compKey) ELSE l,
          cache |-> c]
    ELSE IF stubOk
    THEN [err |-> FALSE,
          ledger |-> StubPutState(l, compKey, value),
          cache |-> [k \in (DOMAIN c) \cup {compKey} |->
                        IF k = compKey THEN value ELSE c[k]]]
    ELSE [err |-> TRUE, ledger |-> l, cache |-> c]

\* stateManager.UpdateAccount
UpdateAccount(l, updatedAccount, stubOk) ==
    IF stubOk
    THEN [err |-> FALSE,
          ledger |-> StubPutState(l, EncodeToString(updatedAccount.Address),
                                  Marshal(updatedAccount))]
    ELSE [err |-> TRUE, ledger |-> l]

\* stateManager.RemoveAccount
RemoveAccount(l, address, stubOk) ==
    IF stubOk
    THEN [err |-> FALSE, ledger |-> StubDelState(l, AccountKey(address))]
    ELSE [err |-> TRUE, ledger |-> l]

\* a cache that holds a cell when the state manager is made
SharedCache == [k \in {<<"c", "e", "l", "l">>} |-> <<42>>]

\* NewStateManager: the cache of a new state manager
NewCache == [k \in {} |-> <<>>]

(* --------------------------- event manager ----------------------------- *)

\* the characters "Log"
LogPrefix == <<"L", "o", "g">>

\* tags[name]: the nil interface when the map has no such tag
TagValue(tags, name) ==
    IF name \in DOMAIN tags THEN tags[name] ELSE [type |-> "nil", val |-> <<>>]

\* a Publish that buffers every event, whatever its EventID
PublishAnyEvent(evCache, ctx, message, tags) ==
    LET tag == TagValue(tags, "EventID") IN
    IF tag.type # "string"
    THEN [err |-> TRUE, panic |-> FALSE, EventCache |-> evCache]
    ELSE IF message.type # "*events.EventDataLog"
    THEN [err |-> TRUE, panic |-> FALSE, EventCache |-> evCache]
    ELSE [err |-> FALSE, panic |-> FALSE,
          EventCache |-> Append(evCache,
                                [Ctx |-> ctx, Message |-> message.val, Tags |-> tags])]

\* a Publish that does not check the type of the message
PublishUnchecked(evCache, ctx, message, tags) ==
    LET tag == TagValue(tags, "EventID") IN
    IF tag.type # "string"
    THEN [err |-> TRUE, panic |-> FALSE, EventCache |-> evCache]
    ELSE IF Len(tag.val) < Len(LogPrefix)
    THEN [err |-> FALSE, panic |-> TRUE, EventCache |-> evCache]
    ELSE IF Slice(tag.val, 0, Len(LogPrefix)) = LogPrefix
    THEN [err |-> FALSE, panic |-> FALSE,
          EventCache |-> Append(evCache,
                                [Ctx |-> ctx, Message |-> message.val, Tags |-> tags])]
    ELSE [err |-> FALSE, panic |-> FALSE, EventCache |-> evCache]

\* EventManager.Publish.  A message or tag value is [type, val]: its dynamic Go
\* type and its value.  The result tells whether the call returned an error,
\* whether it panicked, and the event cache after it.
Publish(evCache, ctx, message, tags) ==
    LET tag == TagValue(tags, "EventID") IN
    IF tag.type # "string"
    THEN [err |-> TRUE, panic |-> FALSE, EventCache |-> evCache]
    ELSE IF message.type # "*events.EventDataLog"
    THEN [err |-> TRUE, panic |-> FALSE, EventCache |-> evCache]
    ELSE IF Len(tag.val) < Len(LogPrefix)
    THEN [err |-> FALSE, panic |-> TRUE, EventCache |-> evCache]
    ELSE IF Slice(tag.val, 0, Len(LogPrefix)) = LogPrefix
    THEN [err |-> FALSE, panic |-> FALSE,
          EventCache |-> Append(evCache,
                                [Ctx |-> ctx, Message |-> message.val, Tags |-> tags])]
    ELSE [err |-> FALSE, panic |-> FALSE, EventCache |-> evCache]

\* json.Marshal of an events.EventDataLog: the address, the topics and the data
\* as hex strings
MarshalLog(log) ==
    [json |-> "object",
     Address |-> EncodeUpperToString(log.Address),
     Topics |-> [i \in 1..Len(log.Topics) |-> EncodeUpperToString(log.Topics[i])],
     Data |-> EncodeUpperToString(log.Data),
     Height |-> log.Height]

\* json.Marshal of a MessagePayloads: an object whose member "payloads" is the
\* array of the payloads, each an object with the member "Message"
MarshalPayloads(payloads) ==
    [json |-> "object",
     key |-> "payloads",
     items |-> [i \in 1..Len(payloads) |->
                   [json |-> "object", key |-> "Message",
                    value |-> MarshalLog(payloads[i].Message)]]]

\* a Flush that sets the event of an empty buffer too
FlushEmptyToo(evCache, evs, eventName, stubOk) ==
    LET eventMsgs == [i \in 1..Len(evCache) |-> [Message |-> evCache[i].Message]] IN
    IF stubOk
    THEN [err |-> FALSE,
          events |-> Append(evs, [name |-> eventName,
                                  payload |-> MarshalPayloads(eventMsgs)])]
    ELSE [err |-> TRUE, events |-> evs]

\* EventManager.Flush: one SetEvent with all buffered messages, none when the
\* buffer is empty.  evs is the list of the SetEvent calls of the transaction.
Flush(evCache, evs, eventName, stubOk) ==
    LET eventMsgs == [i \in 1..Len(evCache) |-> [Message |-> evCache[i].Message]] IN
    IF Len(evCache) > 0
    THEN IF stubOk
         THEN [err |-> FALSE,
               events |-> Append(evs, [name |-> eventName,
                                       payload |-> MarshalPayloads(eventMsgs)])]
         ELSE [err |-> TRUE, events |-> evs]
    ELSE [err |-> FALSE, events |-> evs]

\* json.Unmarshal of an events.EventDataLog
UnmarshalLog(doc) ==
    [Address |-> DecodeString(doc.Address).val,
     Topics |-> [i \in 1..Len(doc.Topics) |-> DecodeString(doc.Topics[i]).val],
     Data |-> DecodeString(doc.Data).val,
     Height |-> doc.Height]

\* json.Unmarshal into a MessagePayloads, as the tests decode an event payload:
\* member names match without regard to case
UnmarshalPayloads(doc) ==
    IF doc.json = "object" /\ doc.key \in {"payloads", "Payloads"}
    THEN [i \in 1..Len(doc.items) |->
             IF doc.items[i].key \in {"Message", "message"}
             THEN [Message |-> UnmarshalLog(doc.items[i].value)]
             ELSE [Message |-> [Address |-> ZeroAddress, Topics |-> <<>>,
                                Data |-> <<>>, Height |-> 0]]]
    ELSE <<>>

(* ------------------------------ Invoke --------------------------------- *)

\* shim.Success(payload)
Success(payload) == [status |-> "OK", payload |-> payload, message |-> ""]

\* shim.Error(msg): msg is the fixed head of the formatted message
Error(msg) == [status |-> "ERROR", payload |-> <<>>, message |-> msg]

\* a Go runtime panic leaves Invoke without a response
Panicked(what) == [status |-> "PANIC", payload |-> <<>>, message |-> what]

\* no response yet
NoResponse == [status |-> "NONE", payload |-> <<>>, message |-> ""]

AccountArg == <<"a", "c", "c", "o", "u", "n", "t">>

GetCodeArg == <<"g", "e", "t", "C", "o", "d", "e">>

\* getCallerAddress; creatorOk is whether stub.GetCreator succeeds
getCallerAddress(creator, creatorOk) ==
    IF ~creatorOk THEN [err |-> TRUE, val |-> ZeroAddress]
    ELSE LET callerAddr == IdentityToAddr(creator) IN
         IF callerAddr.err THEN [err |-> TRUE, val |-> ZeroAddress]
         ELSE AddressFromBytes(callerAddr.val)

\* an account request that answers with the lowercase hex of the address
accountLower(creator, creatorOk) ==
    LET callerAddr == getCallerAddress(creator, creatorOk) IN
    IF callerAddr.err THEN Error("fail to convert identity to address")
    ELSE Success(EncodeToString(callerAddr.val))

\* EvmChaincode.account
account(creator, creatorOk) ==
    LET callerAddr == getCallerAddress(creator, creatorOk) IN
    IF callerAddr.err THEN Error("fail to convert identity to address")
    ELSE Success(EncodeUpperToString(callerAddr.val))

\* a getCode that answers with the code as it is stored, not its hex encoding
getCodeRaw(l, address, stubOk) ==
    LET c == DecodeString(address)
        calleeAddr == AddressFromBytes(c.val)
        acctBytes == StubGetState(l, AccountKey(calleeAddr.val))
        acct == Unmarshal(acctBytes)
    IN  IF c.err THEN Error("failed to decode callee address")
        ELSE IF calleeAddr.err THEN Error("failed to get callee address")
        ELSE IF ~stubOk THEN Error("failed to get contract account")
        ELSE IF Len(acctBytes) = 0 THEN Success(acctBytes)
        ELSE IF acct.err THEN Error("failed to decode contract account")
        ELSE Success(acct.acct.EVMCode)

\* EvmChaincode.getCode
getCode(l, address, stubOk) ==
    LET c == DecodeString(address)
        calleeAddr == AddressFromBytes(c.val)
        acctBytes == StubGetState(l, AccountKey(calleeAddr.val))
        acct == Unmarshal(acctBytes)
    IN  IF c.err THEN Error("failed to decode callee address")
        ELSE IF calleeAddr.err THEN Error("failed to get callee address")
        ELSE IF ~stubOk THEN Error("failed to get contract account")
        ELSE IF Len(acctBytes) = 0 THEN Success(acctBytes)
        ELSE IF acct.err THEN Error("failed to decode contract account")
        ELSE Success(EncodeToString(acct.acct.EVMCode))

\* the locals of an invocation that did not reach the VM
NoLocals ==
    [mode |-> "none", callerAddr |-> ZeroAddress, calleeAddr |-> ZeroAddress,
     input |-> <<>>, contractAddr |-> ZeroAddress, code |-> <<>>]

\* Invoke returned before the VM ran
Returned(l, resp) == [running |-> FALSE, response |-> resp, ledger |-> l, locals |-> NoLocals]

\* Invoke reached vm.Execute
Running(l, loc) == [running |-> TRUE, response |-> NoResponse, ledger |-> l, locals |-> loc]

\* The deploy branch of Invoke up to vm.Execute: the contract account is
\* created, without code, at the address derived from the caller and the nonce.
DeployHead(l, callerAddr, input, txid, stubOk) ==
    LET nonce == Nonce(callerAddr, txid)
        contractAddr == NewContractAddress(callerAddr, nonce)
        acc == Account(contractAddr, ContractPermFlags, <<>>)
        upd == UpdateAccount(l, acc, stubOk)
    IN  IF upd.err THEN Returned(l, Error("failed to create the contract account"))
        ELSE Running(upd.ledger,
                     [mode |-> "deploy", callerAddr |-> callerAddr,
                      calleeAddr |-> contractAddr, input |-> input,
                      contractAddr |-> contractAddr, code |-> input])

\* The call branch of Invoke up to vm.Execute: the callee account is read and
\* its code, read through the account pointer, is handed to the VM.
CallHead(l, callerAddr, calleeAddr, input, stubOk) ==
    LET calleeAcct == GetAccount(l, calleeAddr, stubOk) IN
    IF calleeAcct.err THEN Returned(l, Error("failed to retrieve contract code"))
    ELSE IF calleeAcct.acct.nil
    THEN Returned(l, Panicked("nil pointer dereference"))
    ELSE Running(l, [mode |-> "call", callerAddr |-> callerAddr,
                     calleeAddr |-> calleeAddr, input |-> input,
                     contractAddr |-> ZeroAddress, code |-> calleeAcct.acct.EVMCode])

\* an Invoke that creates the account of the contract before it decodes the
\* input
InvokeHeadWriteFirst(l, args, creator, txid, creatorOk, stubOk) ==
    IF Len(args) = 1 /\ args[1] = AccountArg
    THEN Returned(l, account(creator, creatorOk))
    ELSE IF Len(args) # 2
    THEN IF Len(args) = 0
         THEN Returned(l, Panicked("index out of range"))
         ELSE Returned(l, Error("expects 2 args"))
    ELSE IF args[1] = GetCodeArg
    THEN Returned(l, getCode(l, args[2], stubOk))
    ELSE LET c == DecodeString(args[1])
             calleeAddr == AddressFromBytes(c.val)
             callerAddr == getCallerAddress(creator, creatorOk)
             input == DecodeString(args[2])
         IN  IF c.err THEN Returned(l, Error("failed to decode callee address"))
             ELSE IF calleeAddr.err THEN Returned(l, Error("failed to get callee address"))
             ELSE IF callerAddr.err THEN Returned(l, Error("failed to get caller address"))
             ELSE IF input.err
             THEN Returned(UpdateAccount(l, Account(callerAddr.val, ContractPermFlags, <<>>),
                                         TRUE).ledger,
                           Error("failed to decode input bytes"))
             ELSE IF calleeAddr.val = ZeroAddress
             THEN DeployHead(l, callerAddr.val, input.val, txid, stubOk)
             ELSE CallHead(l, callerAddr.val, calleeAddr.val, input.val, stubOk)

\* Invoke from its entry to the call of vm.Execute
InvokeHead(l, args, creator, txid, creatorOk, stubOk) ==
    IF Len(args) = 1 /\ args[1] = AccountArg
    THEN Returned(l, account(creator, creatorOk))
    ELSE IF Len(args) # 2
    THEN IF Len(args) = 0
         THEN Returned(l, Panicked("index out of range"))
         ELSE Returned(l, Error("expects 2 args"))
    ELSE IF args[1] = GetCodeArg
    THEN Returned(l, getCode(l, args[2], stubOk))
    ELSE LET c == DecodeString(args[1])
             calleeAddr == AddressFromBytes(c.val)
             callerAddr == getCallerAddress(creator, creatorOk)
             input == DecodeString(args[2])
         IN  IF c.err THEN Returned(l, Error("failed to decode callee address"))
             ELSE IF calleeAddr.err THEN Returned(l, Error("failed to get callee address"))
             ELSE IF callerAddr.err THEN Returned(l, Error("failed to get caller address"))
             ELSE IF input.err THEN Returned(l, Error("failed to decode input bytes"))
             ELSE IF calleeAddr.val = ZeroAddress
             THEN DeployHead(l, callerAddr.val, input.val, txid, stubOk)
             ELSE CallHead(l, callerAddr.val, calleeAddr.val, input.val, stubOk)

\* a deploy branch that does not store the runtime bytecode
DeployTailNoCode(l, evCache, evs, loc, vm, putOk, eventOk) ==
    LET fl == Flush(evCache, evs, EncodeToString(Slice(loc.contractAddr, 0, EventNameBytes)),
                    eventOk)
    IN  IF vm.err THEN [response |-> Error("failed to deploy code"), ledger |-> l, events |-> evs]
        ELSE IF vm.nil THEN [response |-> Error("nil bytecode"), ledger |-> l, events |-> evs]
        ELSE IF fl.err
        THEN [response |-> Error("error in Flush"), ledger |-> l, events |-> evs]
        ELSE [response |-> Success(EncodeToString(loc.contractAddr)),
              ledger |-> l, events |-> fl.events]

\* a deploy branch that flushes the events before it looks at the result of
\* the VM
DeployTailFlushFirst(l, evCache, evs, loc, vm, putOk, eventOk) ==
    LET acc == Account(loc.contractAddr, ContractPermFlags, vm.bytes)
        upd == UpdateAccount(l, acc, putOk)
        fl == Flush(evCache, evs, EncodeToString(Slice(loc.contractAddr, 0, EventNameBytes)),
                    eventOk)
    IN  IF fl.err
        THEN [response |-> Error("error in Flush"), ledger |-> l, events |-> evs]
        ELSE IF vm.err
        THEN [response |-> Error("failed to deploy code"), ledger |-> l, events |-> fl.events]
        ELSE IF vm.nil
        THEN [response |-> Error("nil bytecode"), ledger |-> l, events |-> fl.events]
        ELSE IF upd.err
        THEN [response |-> Error("failed to update the contract account with code"),
              ledger |-> l, events |-> fl.events]
        ELSE [response |-> Success(EncodeToString(loc.contractAddr)),
              ledger |-> upd.ledger, events |-> fl.events]

\* The deploy branch of Invoke after vm.Execute returned vm = [err, nil, bytes]
DeployTail(l, evCache, evs, loc, vm, putOk, eventOk) ==
    LET acc == Account(loc.contractAddr, ContractPermFlags, vm.bytes)
        upd == UpdateAccount(l, acc, putOk)
        fl == Flush(evCache, evs, EncodeToString(Slice(loc.contractAddr, 0, EventNameBytes)),
                    eventOk)
    IN  IF vm.err THEN [response |-> Error("failed to deploy code"), ledger |-> l, events |-> evs]
        ELSE IF vm.nil THEN [response |-> Error("nil bytecode"), ledger |-> l, events |-> evs]
        ELSE IF upd.err
        THEN [response |-> Error("failed to update the contract account with code"),
              ledger |-> l, events |-> evs]
        ELSE IF fl.err
        THEN [response |-> Error("error in Flush"), ledger |-> upd.ledger, events |-> evs]
        ELSE [response |-> Success(EncodeToString(loc.contractAddr)),
              ledger |-> upd.ledger, events |-> fl.events]

\* The call branch of Invoke after vm.Execute returned: the event is named by
\* the first characters of args[1], sliced before Flush is entered
CallTail(l, evCache, evs, args, vm, eventOk) ==
    LET fl == Flush(evCache, evs, Slice(args[2], 0, SelectorChars), eventOk) IN
    IF vm.err THEN [response |-> Error("failed to execute contract"), ledger |-> l, events |-> evs]
    ELSE IF Len(args[2]) < SelectorChars
    THEN [response |-> Panicked("slice bounds out of range"), ledger |-> l, events |-> evs]
    ELSE IF fl.err THEN [response |-> Error("error in Flush"), ledger |-> l, events |-> evs]
    ELSE [response |-> Success(vm.bytes), ledger |-> l, events |-> fl.events]

(* ------------------------- inputs of the model ------------------------- *)

\* stub.GetTxID of the n-th transaction: the ledger gives every transaction
\* an id of its own
TxID(n) == <<n>>

\* the address of an account the VM creates while it runs (a CREATE in the code)
ChildAddr == [i \in 1..AddressLength |-> IF i = 1 THEN 222 ELSE 173]

\* a storage word whose last byte is n
Word(n) == [i \in 1..Word256Length |-> IF i = Word256Length THEN n ELSE 0]

StorageKeys == {Word(1)}

StorageValues == {<<>>, <<42>>, <<7>>}

\* args[1] of a transaction: half a selector, a selector with an argument,
\* and a string that is no hex
ShortInput == <<"6", "d", "4", "c">>

LongInput == <<"6", "0", "f", "e", "4", "7", "b", "1", "2", "a">>

BadHex == <<"z", "z">>

\* args[0] of a call: the address of a contract deployed before (as the deploy
\* returned it), the address of an account that may not exist, a string that
\* is no hex, and the hex of a single byte
CalleeArgs(dep) ==
    { EncodeUpperToString(ChildAddr), BadHex, <<"0", "0">> } \cup { d.addr : d \in dep }

\* the argument vectors of a transaction: of every length from 0 to 3, the
\* account and getCode requests, deploys and calls
ArgVectors(dep) ==
    { <<>>, <<AccountArg>>, <<GetCodeArg>>, <<AccountArg, GetCodeArg, AccountArg>> }
    \cup { <<GetCodeArg, h>> : h \in CalleeArgs(dep) \cup {EncodeUpperToString(ZeroAddress)} }
    \cup { <<EncodeUpperToString(ZeroAddress), in>> : in \in {LongInput, BadHex} }
    \cup { <<h, in>> : h \in CalleeArgs(dep), in \in {ShortInput, LongInput} }
    \cup { <<EncodeUpperToString(ChildAddr), BadHex>> }

\* what vm.Execute may return: an error, nil, or bytes
VMResults ==
    { [err |-> TRUE, nil |-> TRUE, bytes |-> <<>>],
      [err |-> FALSE, nil |-> TRUE, bytes |-> <<>>],
      [err |-> FALSE, nil |-> FALSE, bytes |-> <<96, 42>>] }

NoVMResult == [err |-> FALSE, nil |-> TRUE, bytes |-> <<>>]

\* the log events the VM emits
Log1 == [Address |-> ChildAddr, Topics |-> <<Word(7)>>, Data |-> <<32, 16>>, Height |-> 0]

Log2 == [Address |-> ZeroAddress, Topics |-> <<>>, Data |-> <<>>, Height |-> 0]

\* the messages the VM publishes: pointers to log events, a log event passed
\* by value, and the call event that goes with an account call
Messages ==
    { [type |-> "*events.EventDataLog", val |-> Log1],
      [type |-> "*events.EventDataLog", val |-> Log2],
      [type |-> "events.EventDataLog", val |-> Log1],
      [type |-> "*events.EventDataCall", val |-> Log2] }

\* the tag maps the VM publishes with: a log event id, an account-call event
\* id, an event id shorter than "Log", an event id of the wrong type, no event id
TagMaps ==
    { [EventID |-> [type |-> "string", val |-> <<"L", "o", "g", "/", "A">>]],
      [EventID |-> [type |-> "string", val |-> <<"A", "c", "c", "/", "A", "/", "C", "a", "l", "l">>]],
      [EventID |-> [type |-> "string", val |-> <<"L", "o">>]],
      [EventID |-> [type |-> "[]uint8", val |-> <<"L", "o", "g", "/", "A">>]],
      [Other |-> [type |-> "string", val |-> <<"L", "o", "g">>]] }

(* ---------------------- the gateway: strings --------------------------- *)

\* the characters "0x"
HexPrefix == <<"0", "x">>

\* strip0x
strip0x(addr) ==
    IF Len(addr) > 2 /\ Slice(addr, 0, 2) = HexPrefix
    THEN Slice(addr, 2, Len(addr))
    ELSE addr

\* strconv.FormatUint(n, 16): lowercase digits, no leading zero
RECURSIVE FormatUint(_)
FormatUint(n) ==
    IF n < 16 THEN <<HexLower[n + 1]>>
    ELSE Append(FormatUint(n \div 16), HexLower[(n % 16) + 1])

\* the value of a string of hex digits
RECURSIVE HexValue(_)
HexValue(s) ==
    IF Len(s) = 0 THEN 0
    ELSE 16 * HexValue(Slice(s, 0, Len(s) - 1)) + FromHexChar(s[Len(s)])

\* a string without its leading zeros
RECURSIVE TrimZeros(_)
TrimZeros(s) ==
    IF Len(s) > 0 /\ s[1] = "0" THEN TrimZeros(Slice(s, 1, Len(s))) ELSE s

\* strconv.ParseUint(input, 16, 64): fails on the empty string, on a character
\* that is no hex digit and on a value of more than 64 bits
ParseUint(input) ==
    IF Len(input) = 0 \/ (\E i \in 1..Len(input) : FromHexChar(input[i]) = -1)
    THEN [err |-> TRUE, val |-> 0]
    ELSE IF Len(TrimZeros(input)) > Uint64HexDigits
    THEN [err |-> TRUE, val |-> 0]
    ELSE [err |-> FALSE, val |-> HexValue(TrimZeros(input))]

Latest == <<"l", "a", "t", "e", "s", "t">>

Earliest == <<"e", "a", "r", "l", "i", "e", "s", "t">>

Pending == <<"p", "e", "n", "d", "i", "n", "g">>

\* a parse that takes a number for the number of the block after it
parseAsNextBlock(input) ==
    IF input \in {Latest, Earliest, Pending}
    THEN [err |-> FALSE, namedBlock |-> input, blockNumber |-> 0]
    ELSE LET decoded == ParseUint(input) IN
         IF ~decoded.err
         THEN [err |-> FALSE, namedBlock |-> <<>>, blockNumber |-> decoded.val + 1]
         ELSE [err |-> TRUE, namedBlock |-> <<>>, blockNumber |-> 0]

\* parseAsDefaultBlock: a named block or a block number
parseAsDefaultBlock(input) ==
    IF input \in {Latest, Earliest, Pending}
    THEN [err |-> FALSE, namedBlock |-> input, blockNumber |-> 0]
    ELSE LET decoded == ParseUint(input) IN
         IF ~decoded.err
         THEN [err |-> FALSE, namedBlock |-> <<>>, blockNumber |-> decoded.val]
         ELSE [err |-> TRUE, namedBlock |-> <<>>, blockNumber |-> 0]

(* ---------------------- the gateway: the ledger ----------------------- *)

\* the identity the gateway signs its proposals with
GatewayUser == "user0"

\* the tags of a log event
LogTags == [EventID |-> [type |-> "string", val |-> <<"L", "o", "g", "/", "A">>]]

\* the event cache after the VM published the logs, one after the other
RECURSIVE PublishLogs(_)
PublishLogs(logs) ==
    IF Len(logs) = 0 THEN <<>>
    ELSE Publish(PublishLogs(Slice(logs, 0, Len(logs) - 1)), "ctx",
                 [type |-> "*events.EventDataLog", val |-> logs[Len(logs)]],
                 LogTags).EventCache

\* A peer runs Invoke on a proposal: the whole of Invoke, with a VM that
\* publishes the logs and returns vm.  The result is the response, the ledger
\* as the invocation wrote it, and the events it set.
InvokeRun(l, args, creator, txid, logs, vm) ==
    LET Ended(head, tail) ==
            IF head.running
            THEN [response |-> tail.response, ledger |-> tail.ledger, events |-> tail.events]
            ELSE [response |-> head.response, ledger |-> head.ledger, events |-> <<>>]
        Executed(head, evCache) ==
            Ended(head, IF head.locals.mode = "deploy"
                        THEN DeployTail(head.ledger, evCache, <<>>, head.locals, vm, TRUE, TRUE)
                        ELSE CallTail(head.ledger, evCache, <<>>, args, vm, TRUE))
    IN  Executed(InvokeHead(l, args, creator, txid, TRUE, TRUE), PublishLogs(logs))

\* the transaction id of the n-th transaction of the gateway, as a string
TxIDString(n) == EncodeToString(<<160 + n>>)

\* the transaction id of the transaction in block n of the channel's history
HistoryTxID(n) == EncodeToString(<<192 + n>>)

\* the data hash of a block
DataHash(number, data) == <<171, number, Len(data)>>

\* a block of the channel
Block(number, previousHash, data) ==
    [number |-> number, dataHash |-> DataHash(number, data),
     previousHash |-> previousHash, data |-> data]

\* A transaction of the channel's history: the instantiation of a chaincode,
\* whose arguments are not those of an EVM transaction.
HistoryEnvelope(n) ==
    [txid |-> HistoryTxID(n),
     args |-> << <<"d", "e", "p", "l", "o", "y">>, <<"c", "h">>, <<"e", "v", "m", "c", "c">> >>,
     payload |-> <<>>, events |-> <<>>]

\* the blocks of the channel when the gateway starts: n blocks of one
\* transaction each, every block with the data hash of the block before it
HistoryChain(n) ==
    [i \in 1..n |->
        Block(i - 1,
              IF i = 1 THEN <<>> ELSE DataHash(i - 2, <<HistoryEnvelope(i - 2)>>),
              <<HistoryEnvelope(i - 1)>>)]

\* the ledger commits an envelope: in a new block, or in the last block when
\* the orderer cut the block after it
Commit(ch, env, newBlock) ==
    LET top == ch[Len(ch)] IN
    IF newBlock
    THEN Append(ch, Block(Len(ch), top.dataHash, <<env>>))
    ELSE [ch EXCEPT ![Len(ch)] = Block(top.number, top.previousHash, Append(top.data, env))]

\* ChannelClient.Query: the chaincode runs, nothing is committed; a response
\* other than OK comes back as an error
ChannelQuery(l, fcn, args, txid, vm, ok) ==
    LET Responded(r) ==
            IF ok /\ r.response.status = "OK"
            THEN [err |-> FALSE, Payload |-> r.response.payload]
            ELSE [err |-> TRUE, Payload |-> <<>>]
    IN  Responded(InvokeRun(l, <<fcn>> \o args, GatewayUser, txid, <<>>, vm))

\* ChannelClient.Execute: the chaincode runs and the transaction is committed
ChannelExecute(l, ch, fcn, args, n, logs, vm, newBlock, ok) ==
    LET Envelope(r) == [txid |-> TxIDString(n), args |-> <<fcn>> \o args,
                        payload |-> r.response.payload, events |-> r.events]
        Responded(r) ==
            IF ok /\ r.response.status = "OK"
            THEN [err |-> FALSE, TransactionID |-> TxIDString(n),
                  ledger |-> r.ledger, chain |-> Commit(ch, Envelope(r), newBlock)]
            ELSE [err |-> TRUE, TransactionID |-> <<>>, ledger |-> l, chain |-> ch]
    IN  Responded(InvokeRun(l, <<fcn>> \o args, GatewayUser, TxID(n), logs, vm))

\* the blocks of a chain that hold a transaction id
BlocksOf(ch, txid) ==
    {i \in 1..Len(ch) : \E j \in 1..Len(ch[i].data) : ch[i].data[j].txid = txid}

\* LedgerClient.QueryBlockByTxID
QueryBlockByTxID(ch, txid, ok) ==
    IF ok /\ BlocksOf(ch, txid) # {}
    THEN [err |-> FALSE, block |-> ch[CHOOSE i \in BlocksOf(ch, txid) : TRUE]]
    ELSE [err |-> TRUE, block |-> Block(0, <<>>, <<>>)]

\* LedgerClient.QueryTransaction
QueryTransaction(ch, txid, ok) ==
    LET b == QueryBlockByTxID(ch, txid, ok).block IN
    IF ok /\ BlocksOf(ch, txid) # {}
    THEN [err |-> FALSE,
          tx |-> b.data[CHOOSE j \in 1..Len(b.data) : b.data[j].txid = txid]]
    ELSE [err |-> TRUE, tx |-> HistoryEnvelope(0)]

\* LedgerClient.QueryBlock
QueryBlock(ch, number, ok) ==
    IF ok /\ number < Len(ch)
    THEN [err |-> FALSE, block |-> ch[number + 1]]
    ELSE [err |-> TRUE, block |-> Block(0, <<>>, <<>>)]

\* LedgerClient.QueryInfo: the height of the chain
QueryInfo(ch, ok) ==
    IF ok THEN [err |-> FALSE, Height |-> Len(ch)] ELSE [err |-> TRUE, Height |-> 0]

(* ---------------------- the gateway: its methods ---------------------- *)

\* What a call of a gateway method leaves behind: whether it returned an
\* error, whether it panicked, the reply, the values it handed to the ledger
\* client (sent), the numbers of the blocks it asked for (fetched), and whether
\* the ledger client returned an error to it.
Outcome(err, panic, reply, sent, fetched, clientErr) ==
    [err |-> err, panic |-> panic, reply |-> reply, sent |-> sent,
     fetched |-> fetched, clientErr |-> clientErr]

\* ethService.GetCode
GetCode(l, arg, reply, txid, ok) ==
    LET strippedAddr == strip0x(arg)
        Replied(response) ==
            IF response.err
            THEN Outcome(TRUE, FALSE, reply, <<strippedAddr>>, <<>>, TRUE)
            ELSE Outcome(FALSE, FALSE, response.Payload, <<strippedAddr>>, <<>>, FALSE)
    IN  Replied(ChannelQuery(l, GetCodeArg, <<strippedAddr>>, txid, NoVMResult, ok))

\* ethService.Call
Call(l, args, reply, txid, vm, ok) ==
    LET sent == <<strip0x(args.To), strip0x(args.Data)>>
        Replied(response) ==
            IF response.err
            THEN Outcome(TRUE, FALSE, reply, sent, <<>>, TRUE)
            ELSE Outcome(FALSE, FALSE, HexPrefix \o EncodeToString(response.Payload),
                         sent, <<>>, FALSE)
    IN  Replied(ChannelQuery(l, sent[1], <<sent[2]>>, txid, vm, ok))

\* ethService.SendTransaction; the result carries the ledger and the chain
\* after the call as well
SendTransaction(l, ch, args, reply, n, logs, vm, newBlock, ok) ==
    LET to == IF args.To = <<>> THEN EncodeToString(ZeroAddress) ELSE args.To
        sent == <<strip0x(to), strip0x(args.Data)>>
        Replied(response) ==
            [out |-> IF response.err
                     THEN Outcome(TRUE, FALSE, reply, sent, <<>>, TRUE)
                     ELSE Outcome(FALSE, FALSE, response.TransactionID, sent, <<>>, FALSE),
             ledger |-> response.ledger,
             chain |-> response.chain]
    IN  Replied(ChannelExecute(l, ch, sent[1], <<sent[2]>>, n, logs, vm, newBlock, ok))

\* ethService.Accounts
Accounts(l, reply, txid, ok) ==
    LET Replied(response) ==
            IF response.err
            THEN Outcome(TRUE, FALSE, reply, <<>>, <<>>, TRUE)
            ELSE Outcome(FALSE, FALSE, <<HexPrefix \o ToLower(response.Payload)>>,
                         <<>>, <<>>, FALSE)
    IN  Replied(ChannelQuery(l, AccountArg, <<>>, txid, NoVMResult, ok))

\* ethService.EstimateGas and ethService.GetBalance
ZeroQuantity == <<"0", "x", "0">>

\* getTransactionInformation: the callee, the input and the chaincode action
\* of an envelope; none of them for a transaction that is not a deploy or a call
getTransactionInformation(env) ==
    LET args == env.args IN
    IF (Len(args) = 1 /\ args[1] = AccountArg) \/ Len(args) # 2
    THEN [to |-> <<>>, input |-> <<>>, nil |-> TRUE, payload |-> <<>>, events |-> <<>>]
    ELSE IF args[1] = GetCodeArg
    THEN [to |-> <<>>, input |-> <<>>, nil |-> TRUE, payload |-> <<>>, events |-> <<>>]
    ELSE [to |-> args[1], input |-> args[2], nil |-> FALSE,
          payload |-> env.payload, events |-> env.events]

\* the position of the first envelope of the list whenever the id is found
IndexOfFirst(data, txid) ==
    IF \E j \in 1..Len(data) : data[j].txid = txid THEN 0 ELSE -1

\* the position in a data list of the first envelope with a transaction id,
\* counted from 0; -1 when there is none
IndexOf(data, txid) ==
    IF \E j \in 1..Len(data) : data[j].txid = txid
    THEN (CHOOSE j \in 1..Len(data) :
             data[j].txid = txid /\ \A k \in 1..(j - 1) : data[k].txid # txid) - 1
    ELSE -1

\* "0x" and the hex of a number
Quantity(n) == HexPrefix \o FormatUint(n)

\* json.Unmarshal of an event payload into []events.EventDataLog: the
\* document has to be an array
UnmarshalLogs(doc) ==
    IF doc.json = "array"
    THEN [err |-> FALSE, logs |-> [i \in 1..Len(doc.items) |-> UnmarshalLog(doc.items[i])]]
    ELSE [err |-> TRUE, logs |-> <<>>]

ZeroReceipt ==
    [TransactionHash |-> <<>>, TransactionIndex |-> <<>>, BlockHash |-> <<>>,
     BlockNumber |-> <<>>, ContractAddress |-> <<>>, GasUsed |-> 0,
     CumulativeGasUsed |-> 0, To |-> <<>>, Logs |-> <<>>]

\* the Log objects of a receipt
ReceiptLogs(eventMsgs, receipt, txID, dataHash) ==
    [i \in 1..Len(eventMsgs) |->
        [Address |-> HexPrefix \o ToLower(EncodeUpperToString(eventMsgs[i].Address)),
         Topics |-> [t \in 1..Len(eventMsgs[i].Topics) |->
                        HexPrefix \o EncodeToString(eventMsgs[i].Topics[t])],
         Data |-> HexPrefix \o EncodeToString(eventMsgs[i].Data),
         BlockNumber |-> receipt.BlockNumber,
         TxHash |-> HexPrefix \o txID,
         TxIndex |-> receipt.TransactionIndex,
         BlockHash |-> HexPrefix \o EncodeToString(dataHash),
         Index |-> Quantity(i - 1)]]

\* a receipt that names the callee of a deploy too
ReceiptOfAnyCallee(receipt, callee, to, payload) ==
    IF callee = ZeroAddress
    THEN [receipt EXCEPT !.ContractAddress = payload, !.To = HexPrefix \o to]
    ELSE [receipt EXCEPT !.To = HexPrefix \o to]

\* the receipt of a transaction with its callee: the address of the contract
\* for a deploy, the callee for a call
ReceiptOfCallee(receipt, callee, to, payload) ==
    IF callee = ZeroAddress
    THEN [receipt EXCEPT !.ContractAddress = payload]
    ELSE [receipt EXCEPT !.To = HexPrefix \o to]

\* ethService.GetTransactionReceipt; qOk and bOk are whether QueryTransaction
\* and QueryBlockByTxID succeed
GetTransactionReceipt(ch, txID, reply, qOk, bOk) ==
    LET strippedTxId == strip0x(txID)
        sent == <<strippedTxId>>
        tx == QueryTransaction(ch, strippedTxId, qOk)
        info == getTransactionInformation(tx.tx)
        blk == QueryBlockByTxID(ch, strippedTxId, bOk)
        block == blk.block
        index == IndexOf(block.data, strippedTxId)
        receipt0 == [ZeroReceipt EXCEPT
                        !.TransactionHash = txID,
                        !.BlockHash = EncodeToString(block.dataHash),
                        !.BlockNumber = Quantity(block.number),
                        !.TransactionIndex = IF index >= 0 THEN Quantity(index) ELSE <<>>]
        callee == DecodeString(info.to)
        receipt1 == ReceiptOfCallee(receipt0, callee.val, info.to, info.payload)
        eventMsgs == UnmarshalLogs(info.events[1].payload)
    IN  IF tx.err THEN Outcome(TRUE, FALSE, reply, sent, <<>>, TRUE)
        ELSE IF blk.err THEN Outcome(TRUE, FALSE, reply, sent, <<>>, TRUE)
        ELSE IF callee.err THEN Outcome(TRUE, FALSE, reply, sent, <<>>, FALSE)
        ELSE IF info.nil THEN Outcome(FALSE, TRUE, reply, sent, <<>>, FALSE)
        ELSE IF Len(info.events) = 0
        THEN Outcome(FALSE, FALSE, receipt1, sent, <<>>, FALSE)
        ELSE IF eventMsgs.err THEN Outcome(TRUE, FALSE, reply, sent, <<>>, FALSE)
        ELSE Outcome(FALSE, FALSE,
                     [receipt1 EXCEPT
                         !.Logs = ReceiptLogs(eventMsgs.logs, receipt1, txID, block.dataHash)],
                     sent, <<>>, FALSE)

ZeroTransaction ==
    [BlockHash |-> <<>>, BlockNumber |-> <<>>, To |-> <<>>, Input |-> <<>>,
     TransactionIndex |-> <<>>, Hash |-> <<>>]

ZeroBlock == [Number |-> <<>>, Hash |-> <<>>, ParentHash |-> <<>>, Transactions |-> <<>>]

\* Keccak256: the digest of a string, of which bloom9 reads six bytes.  The
\* digest is not computed here: the six bytes are the lengths and the values
\* of the last characters of the string.
Keccak256(data) ==
    [i \in 1..6 |->
        IF i = 1 THEN Len(data) % 256
        ELSE IF Len(data) >= i - 1 /\ FromHexChar(data[Len(data) - (i - 2)]) >= 0
        THEN FromHexChar(data[Len(data) - (i - 2)])
        ELSE 0]

\* bloom9: the three bits of a string, each of them given by 11 bits of two
\* bytes of the digest
bloom9(b) ==
    { (Keccak256(b)[i + 2] + Keccak256(b)[i + 1] * 256) % 2048 : i \in {0, 2, 4} }

\* the bits of the last log of the list only
LogsBloomOfLast(logs) ==
    IF Len(logs) = 0 THEN {}
    ELSE bloom9(logs[Len(logs)].Address) \cup
         UNION { bloom9(logs[Len(logs)].Topics[t]) : t \in 1..Len(logs[Len(logs)].Topics) }

\* LogsBloom: the bits of the addresses and of the topics of the logs
LogsBloom(logs) ==
    UNION { bloom9(logs[i].Address) \cup
            UNION { bloom9(logs[i].Topics[t]) : t \in 1..Len(logs[i].Topics) } :
            i \in 1..Len(logs) }

\* CreateBloom: the bloom of 2048 bits with the bits of the logs set
CreateBloom(logs) == LogsBloom(logs)

\* ethService.GetTransactionByHash
GetTransactionByHash(ch, txID, reply, ok) ==
    LET strippedTxId == strip0x(txID)
        sent == <<strippedTxId>>
        blk == QueryBlockByTxID(ch, strippedTxId, ok)
        block == blk.block
        index == IndexOf(block.data, strippedTxId)
        info == getTransactionInformation(block.data[index + 1])
        txn0 == [ZeroTransaction EXCEPT
                    !.Hash = txID,
                    !.BlockHash = HexPrefix \o EncodeToString(block.dataHash),
                    !.BlockNumber = Quantity(block.number)]
        txn == IF index >= 0
               THEN [txn0 EXCEPT !.TransactionIndex = Quantity(index),
                                 !.To = HexPrefix \o info.to,
                                 !.Input = HexPrefix \o info.input]
               ELSE txn0
    IN  IF txID = <<>> THEN Outcome(TRUE, FALSE, reply, <<>>, <<>>, FALSE)
        ELSE IF blk.err THEN Outcome(TRUE, FALSE, reply, sent, <<>>, TRUE)
        ELSE Outcome(FALSE, FALSE, txn, sent, <<>>, FALSE)

\* an entry that counts the transactions of a block from 1
BlockTransactionFromOne(env, index, blockHash, blockNumber, fullTransactions) ==
    IF fullTransactions
    THEN [BlockHash |-> blockHash,
          BlockNumber |-> blockNumber,
          To |-> HexPrefix \o getTransactionInformation(env).to,
          Input |-> HexPrefix \o getTransactionInformation(env).input,
          TransactionIndex |-> Quantity(index + 1),
          Hash |-> HexPrefix \o env.txid]
    ELSE HexPrefix \o env.txid

\* The entry of a block's transactions list for the envelope at position
\* index of the data list: a Transaction, or the hash of the transaction alone.
BlockTransaction(env, index, blockHash, blockNumber, fullTransactions) ==
    IF fullTransactions
    THEN [BlockHash |-> blockHash,
          BlockNumber |-> blockNumber,
          To |-> HexPrefix \o getTransactionInformation(env).to,
          Input |-> HexPrefix \o getTransactionInformation(env).input,
          TransactionIndex |-> Quantity(index),
          Hash |-> HexPrefix \o env.txid]
    ELSE HexPrefix \o env.txid

\* the closure getBlockByNumber of GetBlockByNumber: the reply for block number
getBlockByNumber(ch, number, fullTransactions, ok) ==
    LET blk == QueryBlock(ch, number, ok)
        block == blk.block
        blockHash == HexPrefix \o EncodeToString(block.dataHash)
        blockNumber == Quantity(number)
        txns == [i \in 1..Len(block.data) |->
                    BlockTransaction(block.data[i], i - 1, blockHash, blockNumber,
                                     fullTransactions)]
    IN  IF blk.err THEN [err |-> TRUE, blk |-> ZeroBlock]
        ELSE [err |-> FALSE,
              blk |-> [Number |-> blockNumber, Hash |-> blockHash,
                       ParentHash |-> HexPrefix \o EncodeToString(block.previousHash),
                       Transactions |-> txns]]

\* ethService.GetBlockByNumber.  A parameter is [type, val], its JSON type and
\* its value; iOk and bOk are whether QueryInfo and QueryBlock succeed.  The
\* height of a channel is at least 1, the genesis block.
GetBlockByNumber(ch, params, reply, iOk, bOk) ==
    LET number == params[1].val
        sent == <<strip0x(number)>>
        block == parseAsDefaultBlock(strip0x(number))
        fullTransactions == params[2].val
        blockchainInfo == QueryInfo(ch, iOk)
        topBlockNumber == blockchainInfo.Height - 1
        wanted == IF block.namedBlock = Latest THEN topBlockNumber
                  ELSE IF block.namedBlock = Earliest THEN 0
                  ELSE block.blockNumber
        r == getBlockByNumber(ch, wanted, fullTransactions, bOk)
    IN  IF Len(params) # 2 THEN Outcome(TRUE, FALSE, reply, <<>>, <<>>, FALSE)
        ELSE IF params[1].type # "string" THEN Outcome(TRUE, FALSE, reply, <<>>, <<>>, FALSE)
        ELSE IF block.err THEN Outcome(TRUE, FALSE, reply, sent, <<>>, FALSE)
        ELSE IF params[2].type # "bool" THEN Outcome(TRUE, FALSE, reply, sent, <<>>, FALSE)
        ELSE IF block.namedBlock = Pending THEN Outcome(TRUE, FALSE, reply, sent, <<>>, FALSE)
        ELSE IF block.namedBlock = Latest /\ blockchainInfo.err
        THEN Outcome(TRUE, FALSE, reply, sent, <<>>, TRUE)
        ELSE Outcome(r.err, FALSE, r.blk, sent, <<wanted>>, r.err)

(* ------------------------------- state --------------------------------- *)

VARIABLES
    ledger,      \* the ledger's key/value state: key |-> value
    txCount,     \* transactions started so far
    pc,          \* "idle", "vm" (inside vm.Execute), "done" (Invoke has ended)
    inv,         \* the current invocation: args, creator, txid, locals, VM result
    cache,       \* stateManager.cache of the current invocation
    EventCache,  \* EventManager.EventCache of the current invocation
    events,      \* the SetEvent calls of the current invocation
    response,    \* the response of the current invocation
    vmCalls,     \* hook calls made by the VM so far
    last,        \* the last hook call of the VM in this execution, and its result
    published,   \* logs the VM published as log events in this invocation
    ledger0,     \* the ledger at the start of the current invocation
    deployed     \* the successful deploys so far

\* the state of the gateway and of the channel it reads
VARIABLES
    chain,       \* the blocks of the channel, block number n at position n + 1
    rpc,         \* the last call of a gateway method and its outcome
    reply        \* the reply object of the last call: [type, val]

\* the calls of the gateway's pure functions and its requests in flight
VARIABLES
    lib,         \* a call of a pure function: its name, its input and its output
    flight       \* the getBlockByNumber("latest") requests in flight, by request

gwvars == <<chain, rpc, reply, lib, flight>>

vars == <<ledger, txCount, pc, inv, cache, EventCache, events, response, vmCalls,
          last, published, ledger0, deployed, gwvars>>

EmptyLedger == [k \in {} |-> <<>>]

\* no gateway method was called yet
NoRPC == [method |-> "none"]

\* no reply object yet
NoReply == [type |-> "none", val |-> <<>>]

\* no invocation is running
NoInvocation ==
    [args |-> <<>>, creator |-> "", txid |-> <<>>, locals |-> NoLocals, vm |-> NoVMResult]

\* EvmChaincode.Init: the default permissions account is written at its
\* address, the zero address; an error of PutState is ignored
ChaincodeInit(putOk) ==
    UpdateAccount(EmptyLedger, Account(ZeroAddress, ContractPermFlags, <<>>), putOk).ledger

\* no pure function is called
NoLib == [call |-> "none", done |-> FALSE, in |-> [none |-> TRUE], out |-> [none |-> TRUE]]

\* no request is in flight
NoFlight == <<>>

\* the chaincode is instantiated and the gateway has started
Started ==
    /\ ledger = ChaincodeInit(TRUE)
    /\ txCount = 0
    /\ pc = "idle"
    /\ inv = NoInvocation
    /\ cache = NewCache
    /\ EventCache = <<>>
    /\ events = <<>>
    /\ response = NoResponse
    /\ vmCalls = 0
    /\ last = [op |-> "none"]
    /\ published = <<>>
    /\ ledger0 = ledger
    /\ deployed = {}
    /\ chain = HistoryChain(HistoryBlocks)
    /\ rpc = NoRPC
    /\ reply = NoReply

Init ==
    /\ Started
    /\ lib = NoLib
    /\ flight = NoFlight

(* ------------------------------ actions -------------------------------- *)

NoCall == [op |-> "none"]

\* The peer calls Invoke for a new transaction.  The step runs Invoke up to
\* its return or, for a deploy or a call, up to the call of vm.Execute, with a
\* new state manager and a new event manager.
InvokeEnter ==
    /\ pc = "idle"
    /\ txCount < MaxTx
    /\ \E args \in ArgVectors(deployed), creator \in Creators,
          creatorOk \in BOOLEAN, stubOk \in BOOLEAN :
          LET txid == TxID(txCount + 1)
              r == InvokeHead(ledger, args, creator, txid, creatorOk, stubOk)
          IN  /\ ledger' = r.ledger
              /\ inv' = [args |-> args, creator |-> creator, txid |-> txid,
                         locals |-> r.locals, vm |-> NoVMResult]
              /\ response' = r.response
              /\ pc' = IF r.running THEN "vm" ELSE "done"
    /\ txCount' = txCount + 1
    /\ cache' = NewCache
    /\ EventCache' = <<>>
    /\ UNCHANGED <<events, vmCalls, last, published, ledger0, deployed, gwvars>>

\* what a hook call of the VM leaves alone
HookFrame == UNCHANGED <<txCount, pc, inv, events, response, ledger0, deployed, gwvars>>

\* the VM may make another hook call
InVM == pc = "vm" /\ vmCalls < MaxVMCalls

\* the VM reads an account
VMGetAccount ==
    /\ InVM
    /\ \E address \in {inv.locals.calleeAddr, ChildAddr}, stubOk \in BOOLEAN :
          LET r == GetAccount(ledger, address, stubOk) IN
          last' = [op |-> "GetAccount", err |-> r.err, nil |-> r.acct.nil]
    /\ vmCalls' = vmCalls + 1
    /\ UNCHANGED <<ledger, cache, EventCache, published>>
    /\ HookFrame

\* the VM reads a storage cell
VMGetStorage ==
    /\ InVM
    /\ \E key \in StorageKeys, stubOk \in BOOLEAN :
          LET r == GetStorage(ledger, cache, inv.locals.calleeAddr, key, stubOk) IN
          last' = [op |-> "GetStorage", key |-> key, err |-> r.err, ret |-> r.val]
    /\ vmCalls' = vmCalls + 1
    /\ UNCHANGED <<ledger, cache, EventCache, published>>
    /\ HookFrame

\* the VM writes a storage cell
VMSetStorage ==
    /\ InVM
    /\ \E key \in StorageKeys, value \in StorageValues, stubOk \in BOOLEAN :
          LET r == SetStorage(ledger, cache, inv.locals.calleeAddr, key, value, stubOk) IN
          /\ ledger' = r.ledger
          /\ cache' = r.cache
          /\ last' = [op |-> "SetStorage", key |-> key, value |-> value, err |-> r.err]
    /\ vmCalls' = vmCalls + 1
    /\ UNCHANGED <<EventCache, published>>
    /\ HookFrame

\* the VM writes an account it created
VMUpdateAccount ==
    /\ InVM
    /\ \E stubOk \in BOOLEAN :
          LET acc == Account(ChildAddr, ContractPermFlags, <<96>>)
              r == UpdateAccount(ledger, acc, stubOk)
          IN  /\ ledger' = r.ledger
              /\ last' = [op |-> "UpdateAccount", err |-> r.err]
    /\ vmCalls' = vmCalls + 1
    /\ UNCHANGED <<cache, EventCache, published>>
    /\ HookFrame

\* the VM removes an account
VMRemoveAccount ==
    /\ InVM
    /\ \E address \in {inv.locals.calleeAddr, ChildAddr}, stubOk \in BOOLEAN :
          LET r == RemoveAccount(ledger, address, stubOk) IN
          /\ ledger' = r.ledger
          /\ last' = [op |-> "RemoveAccount", err |-> r.err]
    /\ vmCalls' = vmCalls + 1
    /\ UNCHANGED <<cache, EventCache, published>>
    /\ HookFrame

\* whether a publish is the publish of a log event: its event id is a string
\* that begins with "Log"
IsLogEvent(tags) ==
    /\ "EventID" \in DOMAIN tags
    /\ tags["EventID"].type = "string"
    /\ HasPrefix(tags["EventID"].val, LogPrefix)

\* what kind of publish the arguments make
PublishKind(message, tags) ==
    IF TagValue(tags, "EventID").type # "string" THEN "tag type"
    ELSE IF IsLogEvent(tags)
    THEN (IF message.type = "*events.EventDataLog" THEN "log" ELSE "log, message type")
    ELSE (IF message.type = "*events.EventDataLog" THEN "other" ELSE "other, message type")

\* The VM publishes an event.  A panic inside Publish unwinds vm.Execute and
\* Invoke: the invocation ends without a response.
VMPublish ==
    /\ InVM
    /\ \E message \in Messages, tags \in TagMaps :
          LET r == Publish(EventCache, "ctx", message, tags) IN
          /\ EventCache' = r.EventCache
          /\ pc' = IF r.panic THEN "done" ELSE "vm"
          /\ response' = IF r.panic THEN Panicked("slice bounds out of range") ELSE response
          /\ last' = [op |-> "Publish", kind |-> PublishKind(message, tags),
                      short |-> Len(TagValue(tags, "EventID").val) < Len(LogPrefix),
                      err |-> r.err, panic |-> r.panic,
                      same |-> r.EventCache = EventCache]
          /\ published' = IF IsLogEvent(tags) /\ ~r.err /\ ~r.panic
                          THEN Append(published, message.val)
                          ELSE published
    /\ vmCalls' = vmCalls + 1
    /\ UNCHANGED <<ledger, cache, txCount, inv, events, ledger0, deployed, gwvars>>

\* a blockchain hook that answers with the height it was asked about
BlockHashOfHeight(height) == [name |-> "BlockHash", panic |-> FALSE, message |-> "", val |-> <<height>>]

\* blockchain.LastBlockHeight: not supported, the call panics
LastBlockHeight ==
    [name |-> "LastBlockHeight", panic |-> TRUE,
     message |-> "Block Height shouldn't be called", val |-> <<>>]

\* blockchain.LastBlockTime: not supported, the call panics
LastBlockTime ==
    [name |-> "LastBlockTime", panic |-> TRUE,
     message |-> "Block Time shouldn't be called", val |-> <<>>]

\* blockchain.BlockHash: not supported, the call panics
BlockHash(height) ==
    [name |-> "BlockHash", panic |-> TRUE,
     message |-> "Block Hash shouldn't be called", val |-> <<>>]

\* the names of the hooks of the blockchain handed to vm.Execute
BlockchainHooks == {"LastBlockHeight", "LastBlockTime", "BlockHash"}

\* The VM asks the blockchain for the last block height, the last block time
\* or the hash of a block.  A panic of the hook unwinds vm.Execute and Invoke:
\* the invocation ends without a response, and its state manager and event
\* manager are gone.
VMBlockchain ==
    /\ InVM
    /\ \E height \in 0..MaxTx :
       \E r \in {LastBlockHeight, LastBlockTime, BlockHash(height)} :
          /\ pc' = IF r.panic THEN "done" ELSE "vm"
          /\ response' = IF r.panic THEN Panicked(r.message) ELSE response
          /\ cache' = IF r.panic THEN NewCache ELSE cache
          /\ EventCache' = IF r.panic THEN <<>> ELSE EventCache
          /\ last' = [op |-> r.name, panic |-> r.panic, ret |-> r.val]
    /\ vmCalls' = vmCalls + 1
    /\ UNCHANGED <<ledger, published, txCount, inv, events, ledger0, deployed, gwvars>>

\* vm.Execute returns and Invoke runs to its end: the deploy branch stores the
\* runtime bytecode and both branches flush the events.  The state manager and
\* the event manager of the invocation are gone when Invoke returns.
VMReturn ==
    /\ pc = "vm"
    /\ \E vm \in VMResults, putOk \in BOOLEAN, eventOk \in BOOLEAN :
          LET t == IF inv.locals.mode = "deploy"
                   THEN DeployTail(ledger, EventCache, events, inv.locals, vm, putOk, eventOk)
                   ELSE CallTail(ledger, EventCache, events, inv.args, vm, eventOk)
          IN  /\ ledger' = t.ledger
              /\ events' = t.events
              /\ response' = t.response
              /\ inv' = [inv EXCEPT !.vm = vm]
              /\ deployed' = IF inv.locals.mode = "deploy" /\ t.response.status = "OK"
                             THEN deployed \cup
                                  {[txid |-> inv.txid, caller |-> inv.locals.callerAddr,
                                    input |-> inv.locals.input,
                                    addr |-> t.response.payload, code |-> vm.bytes]}
                             ELSE deployed
    /\ pc' = "done"
    /\ cache' = NewCache
    /\ EventCache' = <<>>
    /\ last' = NoCall
    /\ UNCHANGED <<txCount, vmCalls, published, ledger0, gwvars>>

\* The shim hands the response of the ended invocation to the peer and waits
\* for the next transaction.  The ledger commits the writes of a transaction
\* that ended with an OK response and drops the writes of any other.
TxEnd ==
    /\ pc = "done"
    /\ pc' = "idle"
    /\ inv' = NoInvocation
    /\ response' = NoResponse
    /\ events' = <<>>
    /\ published' = <<>>
    /\ cache' = NewCache
    /\ EventCache' = <<>>
    /\ last' = NoCall
    /\ ledger' = (IF response.status = "OK" THEN ledger ELSE ledger0)
    /\ ledger0' = ledger'
    /\ UNCHANGED <<txCount, vmCalls, deployed, gwvars>>

Next ==
    \/ InvokeEnter
    \/ VMGetAccount
    \/ VMGetStorage
    \/ VMSetStorage
    \/ VMUpdateAccount
    \/ VMRemoveAccount
    \/ VMPublish
    \/ VMBlockchain
    \/ VMReturn
    \/ TxEnd

Spec == Init /\ [][Next]_vars

(* ------------------------- the gateway: inputs ------------------------- *)

\* the address of the gateway's identity
GatewayAddr == IdentityToAddr(GatewayUser).val

\* the hex addresses of the contracts the first n transactions of the gateway
\* deploy, if they are deploys
GwContracts(n) ==
    { EncodeToString(NewContractAddress(GatewayAddr, Nonce(GatewayAddr, TxID(k)))) : k \in 1..n }

\* a hex argument as clients write it: with the prefix and without it
Written(hs) == hs \cup { HexPrefix \o h : h \in hs }

\* the address arguments of the clients: contract addresses, with and without
\* the prefix, and the prefix alone
AddressArgs(n) == Written(GwContracts(n)) \cup {HexPrefix}

\* the data arguments of the clients
DataArgs == Written({LongInput}) \cup {HexPrefix}

\* the transaction id arguments of the clients: ids of the gateway's
\* transactions, the id of a transaction of the history, the prefix alone,
\* the empty string
TxIDArgs == Written({TxIDString(k) : k \in 1..MaxTx} \cup {HistoryTxID(0)}) \cup {HexPrefix, <<>>}

\* the logs the VM publishes while it runs a transaction of the gateway
GwLogs == {<<>>, <<Log1, Log2>>}

\* The block arguments of the clients: the named blocks, one with the prefix,
\* the numbers of blocks on the chain and beyond it, in either case and with a
\* leading zero, a number of 65 bits, and strings that are no numbers
BlockArgs ==
    { Latest, Earliest, Pending, HexPrefix \o Latest,
      <<"0", "x", "0">>, <<"a">>, <<"0", "x", "0", "A">>, <<"0", "x", "b">>, <<"1", "f">>,
      <<"1", "0", "0", "0", "0", "0", "0", "0", "0", "0", "0", "0", "0", "0", "0", "0", "0">>,
      HexPrefix, <<>>, <<"z">>, <<"-", "1">> }

\* the parameter vectors of getBlockByNumber: a block and a flag, and vectors
\* of the wrong length or with a parameter of the wrong type
BlockParams ==
    { << [type |-> "string", val |-> b], [type |-> "bool", val |-> f] >> :
          b \in BlockArgs, f \in BOOLEAN }
    \cup { << [type |-> "string", val |-> Latest] >>,
           << [type |-> "number", val |-> <<"1">>], [type |-> "bool", val |-> FALSE] >>,
           << [type |-> "string", val |-> Latest], [type |-> "string", val |-> TRUE] >> }

\* the zero value of a reply type
ZeroReply(type) ==
    IF type = "receipt" THEN ZeroReceipt
    ELSE IF type = "transaction" THEN ZeroTransaction
    ELSE IF type = "block" THEN ZeroBlock
    ELSE <<>>

\* the chain after the gateway deployed a first contract
UsedChain ==
    ChannelExecute(ChaincodeInit(TRUE), HistoryChain(HistoryBlocks),
                   EncodeToString(ZeroAddress), <<LongInput>>, 1, <<>>,
                   [err |-> FALSE, nil |-> FALSE, bytes |-> <<96, 42>>], TRUE, TRUE).chain

\* a reply object that an earlier call has written
UsedReply(type) ==
    IF type = "receipt"
    THEN GetTransactionReceipt(UsedChain, TxIDString(1), ZeroReceipt, TRUE, TRUE).reply
    ELSE IF type = "transaction"
    THEN GetTransactionByHash(UsedChain, TxIDString(1), ZeroTransaction, TRUE).reply
    ELSE IF type = "block"
    THEN getBlockByNumber(UsedChain, 0, FALSE, TRUE).blk
    ELSE IF type = "accounts" THEN <<ZeroQuantity>>
    ELSE ZeroQuantity

\* The reply object a caller hands to a method: a new one, or one that an
\* earlier call has written.
ReplyBefore(type, reuse) == IF reuse THEN UsedReply(type) ELSE ZeroReply(type)

\* the record of a call
Called(method, params, before, out) ==
    [method |-> method, params |-> params, before |-> before,
     err |-> out.err, panic |-> out.panic, sent |-> out.sent,
     fetched |-> out.fetched, clientErr |-> out.clientErr]

\* what a gateway method leaves alone
GwFrame == UNCHANGED <<pc, inv, cache, EventCache, events, response, vmCalls, last,
                       published, deployed, lib, flight>>

\* what a gateway method that commits nothing leaves alone
ReadOnly == GwFrame /\ UNCHANGED <<ledger, ledger0, txCount, chain>>

(* ------------------------ the gateway: actions ------------------------- *)

\* the gateway waits for a request
Ready == rpc = NoRPC

\* the server has sent the reply of the last call and waits for the next request
RPCDone ==
    /\ ~Ready
    /\ rpc' = NoRPC
    /\ reply' = NoReply
    /\ ReadOnly

RPCGetCode ==
    /\ Ready
    /\ \E arg \in AddressArgs(txCount), reuse \in BOOLEAN, ok \in BOOLEAN :
          \E before \in {ReplyBefore("string", reuse)} :
          \E out \in {GetCode(ledger, arg, before, TxID(txCount + 1), ok)} :
              /\ rpc' = Called("GetCode", <<arg>>, before, out)
              /\ reply' = [type |-> "string", val |-> out.reply]
    /\ ReadOnly

RPCCall ==
    /\ Ready
    /\ \E to \in AddressArgs(txCount), data \in DataArgs, vm \in VMResults,
          reuse \in BOOLEAN, ok \in BOOLEAN :
          \E before \in {ReplyBefore("string", reuse)} :
          \E out \in {Call(ledger, [To |-> to, Data |-> data], before, TxID(txCount + 1), vm, ok)} :
              /\ rpc' = Called("Call", <<to, data>>, before, out)
              /\ reply' = [type |-> "string", val |-> out.reply]
    /\ ReadOnly

RPCSendTransaction ==
    /\ Ready
    /\ txCount < MaxTx
    /\ \E to \in AddressArgs(txCount) \cup {<<>>}, data \in DataArgs, logs \in GwLogs,
          vm \in VMResults, newBlock \in BOOLEAN, reuse \in BOOLEAN, ok \in BOOLEAN :
          \E before \in {ReplyBefore("string", reuse)} :
          \E r \in {SendTransaction(ledger, chain, [To |-> to, Data |-> data], before,
                                   txCount + 1, logs, vm, newBlock, ok)} :
              /\ rpc' = Called("SendTransaction", <<to, data>>, before, r.out)
              /\ reply' = [type |-> "string", val |-> r.out.reply]
              /\ ledger' = r.ledger
              /\ ledger0' = r.ledger
              /\ chain' = r.chain
              /\ txCount' = IF r.out.err THEN txCount ELSE txCount + 1
    /\ GwFrame

RPCAccounts ==
    /\ Ready
    /\ \E reuse \in BOOLEAN, ok \in BOOLEAN :
          \E before \in {ReplyBefore("accounts", reuse)} :
          \E out \in {Accounts(ledger, before, TxID(txCount + 1), ok)} :
              /\ rpc' = Called("Accounts", <<>>, before, out)
              /\ reply' = [type |-> "accounts", val |-> out.reply]
    /\ ReadOnly

RPCEstimateGas ==
    /\ Ready
    /\ rpc' = Called("EstimateGas", <<>>, ReplyBefore("string", FALSE),
                     Outcome(FALSE, FALSE, ZeroQuantity, <<>>, <<>>, FALSE))
    /\ reply' = [type |-> "string", val |-> ZeroQuantity]
    /\ ReadOnly

RPCGetBalance ==
    /\ Ready
    /\ rpc' = Called("GetBalance", <<>>, ReplyBefore("string", FALSE),
                     Outcome(FALSE, FALSE, ZeroQuantity, <<>>, <<>>, FALSE))
    /\ reply' = [type |-> "string", val |-> ZeroQuantity]
    /\ ReadOnly

RPCGetTransactionReceipt ==
    /\ Ready
    /\ \E txID \in TxIDArgs, reuse \in BOOLEAN, qOk \in BOOLEAN, bOk \in BOOLEAN :
          \E before \in {ReplyBefore("receipt", reuse)} :
          \E out \in {GetTransactionReceipt(chain, txID, before, qOk, bOk)} :
              /\ rpc' = Called("GetTransactionReceipt", <<txID>>, before, out)
              /\ reply' = [type |-> "receipt", val |-> out.reply]
    /\ ReadOnly

RPCGetTransactionByHash ==
    /\ Ready
    /\ \E txID \in TxIDArgs, reuse \in BOOLEAN, ok \in BOOLEAN :
          \E before \in {ReplyBefore("transaction", reuse)} :
          \E out \in {GetTransactionByHash(chain, txID, before, ok)} :
              /\ rpc' = Called("GetTransactionByHash", <<txID>>, before, out)
              /\ reply' = [type |-> "transaction", val |-> out.reply]
    /\ ReadOnly

RPCGetBlockByNumber ==
    /\ Ready
    /\ \E params \in BlockParams, reuse \in BOOLEAN, iOk \in BOOLEAN, bOk \in BOOLEAN :
          \E before \in {ReplyBefore("block", reuse)} :
          \E out \in {GetBlockByNumber(chain, params, before, iOk, bOk)} :
              /\ rpc' = Called("GetBlockByNumber", params, before, out)
              /\ reply' = [type |-> "block", val |-> out.reply]
    /\ ReadOnly

GwNext ==
    \/ RPCGetCode
    \/ RPCCall
    \/ RPCSendTransaction
    \/ RPCAccounts
    \/ RPCEstimateGas
    \/ RPCGetBalance
    \/ RPCGetTransactionReceipt
    \/ RPCGetTransactionByHash
    \/ RPCGetBlockByNumber
    \/ RPCDone

\* the gateway serves its clients over the chaincode
GwSpec == Init /\ [][GwNext]_vars

(* ----------------------- the gateway: pure functions ------------------ *)

\* a log with two topics
Log3 == [Address |-> GatewayAddr, Topics |-> <<Word(7), Word(31)>>, Data |-> <<>>, Height |-> 0]

\* the Log objects the gateway makes of the logs of a transaction
BloomLogs ==
    LET logs == ReceiptLogs(<<Log1, Log2, Log3>>, ZeroReceipt, TxIDString(1), DataHash(0, <<>>))
    IN  {logs[i] : i \in 1..Len(logs)}

\* the lists of logs handed to CreateBloom
LogLists == UNION {[1..k -> BloomLogs] : k \in 0..MaxLogs}

\* strings.ToUpper on one character
ToUpperChar(c) ==
    IF \E i \in 1..Len(LowerLetters) : LowerLetters[i] = c
    THEN UpperLetters[CHOOSE i \in 1..Len(LowerLetters) : LowerLetters[i] = c]
    ELSE c

\* whether a character ends a word for strings.Title: it is no letter, no
\* digit and no underscore
IsSeparator(c) ==
    /\ \A i \in 1..Len(LowerLetters) : LowerLetters[i] # c /\ UpperLetters[i] # c
    /\ \A i \in 1..10 : HexLower[i] # c
    /\ c # "_"

\* strings.Title: the first letter of every word in upper case
Title(s) ==
    [i \in 1..Len(s) |-> IF i = 1 \/ IsSeparator(s[i - 1]) THEN ToUpperChar(s[i]) ELSE s[i]]

\* strings.Split on a separator of one character: the parts between the
\* separators, one part for a string without separator
RECURSIVE Split(_, _)
Split(s, sep) ==
    IF \A i \in 1..Len(s) : s[i] # sep THEN <<s>>
    ELSE LET i == CHOOSE j \in 1..Len(s) : s[j] = sep /\ \A k \in 1..(j - 1) : s[k] # sep
         IN  <<Slice(s, 0, i - 1)>> \o Split(Slice(s, i, Len(s)), sep)

\* the namespaces of the method names
EthNamespace == <<"e", "t", "h">>

Web3Namespace == <<"w", "e", "b", "3">>

NetNamespace == <<"n", "e", "t">>

\* the name of the service the methods are registered under, with its dot
ServicePrefix == <<"E", "t", "h", "R", "P", "C", "S", "e", "r", "v", "i", "c", "e", ".">>

\* rpcCodec.ReadRequestHeader: the service method of a request, made of the
\* method name the client sent; codecOk is whether the JSON codec read the
\* header
ReadRequestHeader(ServiceMethod, codecOk) ==
    LET serviceMethod == Split(ServiceMethod, "_")
        method == Title(serviceMethod[Len(serviceMethod)])
    IN  IF ~codecOk
        THEN [err |-> TRUE, message |-> "codec", ServiceMethod |-> ServiceMethod]
        ELSE IF serviceMethod[1] \in {Web3Namespace, EthNamespace}
        THEN [err |-> FALSE, message |-> "", ServiceMethod |-> ServicePrefix \o method]
        ELSE [err |-> TRUE, message |-> "Service not found", ServiceMethod |-> ServiceMethod]

\* the method names the clients send: methods of the three namespaces, names
\* with more than one underscore or none, an unknown method, unknown
\* namespaces and the empty name
MethodNames ==
    { <<"e", "t", "h", "_", "g", "e", "t", "C", "o", "d", "e">>,
      <<"e", "t", "h", "_", "a", "c", "c", "o", "u", "n", "t", "s">>,
      <<"e", "t", "h", "_", "g", "e", "t", "B", "l", "o", "c", "k", "B", "y", "N", "u", "m", "b", "e", "r">>,
      <<"w", "e", "b", "3", "_", "g", "e", "t", "C", "o", "d", "e">>,
      <<"w", "e", "b", "3", "_", "c", "l", "i", "e", "n", "t", "V", "e", "r", "s", "i", "o", "n">>,
      <<"n", "e", "t", "_", "v", "e", "r", "s", "i", "o", "n">>,
      <<"n", "e", "t", "_", "g", "e", "t", "C", "o", "d", "e">>,
      <<"e", "t", "h", "_", "g", "e", "t", "_", "c", "o", "d", "e">>,
      <<"e", "t", "h", "_", "u", "n", "k", "n", "o", "w", "n">>,
      <<"E", "t", "h", "_", "g", "e", "t", "C", "o", "d", "e">>,
      <<"f", "o", "o", "_", "b", "a", "r">>,
      <<"g", "e", "t", "C", "o", "d", "e">>,
      <<"e", "t", "h">>,
      <<"e", "t", "h", "_">>,
      <<>> }

\* the calls of pure functions and their inputs
LibCalls ==
    {[call |-> "CreateBloom", done |-> FALSE, in |-> [A |-> A, B |-> B], out |-> NoLib.out] :
        A \in LogLists, B \in LogLists}
    \cup
    {[call |-> "ReadRequestHeader", done |-> FALSE,
      in |-> [ServiceMethod |-> m, codecOk |-> ok], out |-> NoLib.out] :
        m \in MethodNames, ok \in BOOLEAN}

\* the chaincode and the gateway are idle and a pure function is to be called
LibInit ==
    /\ Started
    /\ lib \in LibCalls
    /\ flight = NoFlight

\* what a call of a pure function leaves alone
LibFrame == UNCHANGED <<ledger, txCount, pc, inv, cache, EventCache, events, response,
                        vmCalls, last, published, ledger0, deployed, chain, rpc, reply,
                        flight>>

\* CreateBloom is called on two lists of logs, on the lists joined in either
\* order and on a list joined with itself
ApplyCreateBloom ==
    /\ lib.call = "CreateBloom"
    /\ ~lib.done
    /\ \E A \in {lib.in.A}, B \in {lib.in.B} :
          lib' = [lib EXCEPT !.done = TRUE,
                             !.out = [a |-> CreateBloom(A), b |-> CreateBloom(B),
                                      ab |-> CreateBloom(A \o B),
                                      ba |-> CreateBloom(B \o A),
                                      aa |-> CreateBloom(A \o A)]]
    /\ LibFrame

\* the rpc server reads the header of a request
ApplyReadRequestHeader ==
    /\ lib.call = "ReadRequestHeader"
    /\ ~lib.done
    /\ lib' = [lib EXCEPT !.done = TRUE,
                          !.out = ReadRequestHeader(lib.in.ServiceMethod, lib.in.codecOk)]
    /\ LibFrame

LibNext ==
    \/ ApplyCreateBloom
    \/ ApplyReadRequestHeader

\* the pure functions of the gateway, called on the inputs of LibCalls
LibSpec == LibInit /\ [][LibNext]_vars

(* -------------------- the gateway: requests in flight ----------------- *)

\* the number of a block with a height as a number
TopBlockNumberIsHeight(height) == height

\* the number of the top block of a chain of a height: the height is the
\* number of the block being worked on, the block before it is the top
TopBlockNumber(height) == height - 1

\* the requests the gateway serves at the same time
Requests == 1..MaxRequests

\* A request that has not arrived: pc is where the handler stands, full the
\* flag the client sent, height the height QueryInfo returned, tops the
\* numbers of the blocks that were the newest while the request was served,
\* failed whether the ledger client was made to fail, reply the reply object
\* of the request.
Waiting ==
    [pc |-> "idle", full |-> FALSE, height |-> 0, tops |-> {}, failed |-> FALSE,
     err |-> FALSE, reply |-> ZeroBlock]

\* the chaincode and the gateway have started and no request has arrived
ConcInit ==
    /\ Started
    /\ lib = NoLib
    /\ flight = [i \in Requests |-> Waiting]

\* what a step of a request leaves alone: the gateway holds its clients, the
\* channel id and the chaincode id, and writes none of them
ConcFrame == UNCHANGED <<ledger, txCount, pc, inv, cache, EventCache, events, response,
                         vmCalls, last, published, ledger0, deployed, rpc, reply, lib>>

\* A request getBlockByNumber("latest", full) arrives: the server makes its
\* reply object and the handler parses the block argument.
FlightStart(i) ==
    /\ flight[i].pc = "idle"
    /\ \E full \in BOOLEAN :
       \E block \in {parseAsDefaultBlock(strip0x(Latest))} :
          /\ ~block.err
          /\ block.namedBlock = Latest
          /\ flight' = [flight EXCEPT ![i] = [Waiting EXCEPT !.pc = "info", !.full = full,
                                                              !.tops = {Len(chain) - 1}]]
    /\ UNCHANGED chain
    /\ ConcFrame

\* the handler of a request asks the ledger for the height of the chain
FlightQueryInfo(i) ==
    /\ flight[i].pc = "info"
    /\ \E iOk \in BOOLEAN :
       \E blockchainInfo \in {QueryInfo(chain, iOk)} :
          flight' = [flight EXCEPT ![i] =
                        IF blockchainInfo.err
                        THEN [@ EXCEPT !.pc = "done", !.err = TRUE, !.failed = TRUE]
                        ELSE [@ EXCEPT !.pc = "block", !.height = blockchainInfo.Height]]
    /\ UNCHANGED chain
    /\ ConcFrame

\* the handler of a request asks the ledger for the top block of the height
\* it read, assigns the result to the reply and returns
FlightQueryBlock(i) ==
    /\ flight[i].pc = "block"
    /\ \E bOk \in BOOLEAN :
       \E r \in {getBlockByNumber(chain, TopBlockNumber(flight[i].height),
                                  flight[i].full, bOk)} :
          flight' = [flight EXCEPT ![i] = [@ EXCEPT !.pc = "done", !.err = r.err,
                                                    !.failed = ~bOk, !.reply = r.blk]]
    /\ UNCHANGED chain
    /\ ConcFrame

\* another client's transaction is committed in a new block
FlightAppend ==
    /\ Len(chain) < HistoryBlocks + MaxAppend
    /\ chain' = Commit(chain, HistoryEnvelope(Len(chain)), TRUE)
    /\ flight' = [i \in Requests |->
                     IF flight[i].pc \in {"info", "block"}
                     THEN [flight[i] EXCEPT !.tops = @ \cup {Len(chain)}]
                     ELSE flight[i]]
    /\ ConcFrame

ConcNext ==
    \/ \E i \in Requests : FlightStart(i)
    \/ \E i \in Requests : FlightQueryInfo(i)
    \/ \E i \in Requests : FlightQueryBlock(i)
    \/ FlightAppend

\* the gateway serves requests for the latest block while the chain grows
ConcSpec == ConcInit /\ [][ConcNext]_vars

(* ----------------------- storage: read after write --------------------- *)

\* C1: within one invocation, a set_storage(a, k, v) that succeeded, followed
\* at once by get_storage(a, k), reads v; when v is empty the read is empty
\* and the ledger key of the cell is deleted.
C1_ReadAfterWrite ==
    (pc = "vm" /\ last.op = "SetStorage" /\ ~last.err) =>
        LET r == GetStorage(ledger, cache, inv.locals.calleeAddr, last.key, TRUE) IN
        /\ ~r.err
        /\ r.val = last.value
        /\ (last.value = <<>> =>
               CompKey(inv.locals.calleeAddr, last.key) \notin DOMAIN ledger)

(* ------------------------------- events -------------------------------- *)

\* C2: a deploy or call that ended with success and whose VM published N >= 1
\* log events has set exactly one ledger event, whose payload decodes to those
\* N logs in the order of publication; with N = 0 it has set no event.  No
\* invocation sets more than one event.
C2_OneEventPerInvocation ==
    /\ Len(events) <= 1
    /\ (pc = "done" /\ response.status = "OK" /\ inv.locals.mode \in {"deploy", "call"}) =>
          IF Len(published) >= 1
          THEN /\ Len(events) = 1
               /\ LET d == UnmarshalPayloads(events[1].payload) IN
                  [i \in 1..Len(d) |-> d[i].Message] = published
          ELSE events = <<>>

\* a call succeeded after its VM published two different logs
C2_Witness ==
    /\ pc = "done"
    /\ response.status = "OK"
    /\ inv.locals.mode = "call"
    /\ Len(published) = 2
    /\ published[1] # published[2]
    /\ Len(events) = 1

\* C3: while the VM runs, the messages of the event buffer are the logs
\* published with an EventID that begins with "Log", in the order of
\* publication; a publish with any other EventID leaves the buffer as it was,
\* and a flushed payload holds the published logs and nothing else.
C3_BufferHoldsLogs ==
    /\ pc = "vm" => [i \in 1..Len(EventCache) |-> EventCache[i].Message] = published
    /\ (last.op = "Publish" /\ last.kind \notin {"log", "log, message type"}) => last.same
    /\ (pc = "done" /\ events # <<>>) =>
          LET d == UnmarshalPayloads(events[Len(events)].payload) IN
          [i \in 1..Len(d) |-> d[i].Message] = published

\* a publish of an event that is no log returned while the buffer held a log
C3_Witness ==
    /\ pc = "vm"
    /\ last.op = "Publish"
    /\ last.kind = "other"
    /\ ~last.err
    /\ Len(EventCache) = 1
    /\ published = <<EventCache[1].Message>>

\* C4: a publish whose EventID is a string that does not begin with "Log"
\* returns success, whatever the length of the EventID and whatever the
\* message.
C4_NonLogPublishSucceeds ==
    (last.op = "Publish" /\ last.kind \in {"other", "other, message type"}) =>
        ~last.err /\ ~last.panic

\* C5: a publish whose EventID tag is no string, or whose message is no
\* pointer to a log event, returns an error and leaves the buffer as it was.
C5_PublishTypeErrors ==
    (last.op = "Publish"
     /\ last.kind \in {"tag type", "log, message type", "other, message type"}) =>
        last.err /\ ~last.panic /\ last.same

\* a log publish with a message of the wrong type failed while the buffer
\* held a log
C5_Witness ==
    /\ pc = "vm"
    /\ last.op = "Publish"
    /\ last.kind = "log, message type"
    /\ last.err
    /\ Len(EventCache) = 1

(* ------------------------------- Invoke -------------------------------- *)

\* C6: an Invoke whose argument vector has a length other than 2, the empty
\* vector included, and is not the single argument "account", ends with the
\* ERROR response "expects 2 args".
C6_WrongArgCount ==
    (pc = "done" /\ Len(inv.args) # 2 /\ inv.args # <<AccountArg>>) =>
        response.status = "ERROR" /\ response.message = "expects 2 args"

\* C7, as the claim states it: after a deploy that succeeded the ledger holds
\* exactly one new account, under the returned address; its code is the
\* bytecode the VM returned and the address is the one derived from the caller
\* and the nonce.
C7_ExactlyOneNewAccount ==
    (pc = "done" /\ inv.locals.mode = "deploy" /\ response.status = "OK") =>
        LET caller == getCallerAddress(inv.creator, TRUE).val IN
        /\ {k \in DOMAIN ledger : Len(k) = 2 * AddressLength /\ k \notin DOMAIN ledger0}
              = {response.payload}
        /\ Unmarshal(ledger[response.payload]).acct.EVMCode = inv.vm.bytes
        /\ response.payload
              = EncodeToString(NewContractAddress(caller, Nonce(caller, inv.txid)))

\* C7, amended: after a deploy that succeeded the ledger holds a new account
\* under the returned address, the one derived from the caller and the nonce;
\* the account's address is that address and its code is the bytecode the VM
\* returned.  The VM may have written further accounts.
C7_DeployStoresAccount ==
    (pc = "done" /\ inv.locals.mode = "deploy" /\ response.status = "OK") =>
        LET caller == getCallerAddress(inv.creator, TRUE).val
            addr == NewContractAddress(caller, Nonce(caller, inv.txid))
        IN  /\ response.payload = EncodeToString(addr)
            /\ response.payload \in DOMAIN ledger
            /\ response.payload \notin DOMAIN ledger0
            /\ ~Unmarshal(ledger[response.payload]).err
            /\ Unmarshal(ledger[response.payload]).acct.Address = addr
            /\ Unmarshal(ledger[response.payload]).acct.EVMCode = inv.vm.bytes
            /\ inv.vm.bytes # <<>>

\* a deploy succeeded
C7_Witness ==
    /\ pc = "done"
    /\ inv.locals.mode = "deploy"
    /\ response.status = "OK"
    /\ inv.vm.bytes = <<96, 42>>

\* C8: two deploys that succeeded have different contract addresses, also
\* when the caller and the bytecode are the same, and a deploy leaves the
\* accounts of the earlier deploys as they were.
C8_DeploysDiffer ==
    /\ \A d1 \in deployed, d2 \in deployed : d1.txid # d2.txid => d1.addr # d2.addr
    /\ (pc = "done" /\ inv.locals.mode = "deploy" /\ response.status = "OK") =>
          \A d \in deployed :
              d.txid # inv.txid => StubGetState(ledger, d.addr) = StubGetState(ledger0, d.addr)

\* the same caller deployed the same bytecode twice
C8_Witness ==
    /\ pc = "done"
    /\ \E d1 \in deployed, d2 \in deployed :
          /\ d1.txid # d2.txid
          /\ d1.caller = d2.caller
          /\ d1.input = d2.input
          /\ d2.txid = inv.txid

\* C9: every Invoke with two arguments ends with an OK or an ERROR response.
C9_TwoArgsRespond ==
    (pc = "done" /\ Len(inv.args) = 2) => response.status \in {"OK", "ERROR"}

\* C10, as the claim states it: the account request returns the lowercase hex
\* of the caller's address, the form of the ledger key of an account.
C10_AccountLowercase ==
    (pc = "done" /\ inv.args = <<AccountArg>> /\ response.status = "OK") =>
        response.payload = EncodeToString(getCallerAddress(inv.creator, TRUE).val)

\* C10, amended: the account request returns the uppercase hex of the caller's
\* address, the address derived from the creator's identity; its lowercase
\* form is the ledger key of the caller's account.
C10_AccountUppercase ==
    (pc = "done" /\ inv.args = <<AccountArg>> /\ response.status = "OK") =>
        LET callerAddr == IdentityToAddr(inv.creator) IN
        /\ ~callerAddr.err
        /\ response.payload = EncodeUpperToString(callerAddr.val)
        /\ DecodeString(response.payload) = [err |-> FALSE, val |-> callerAddr.val]
        /\ ToLower(response.payload) = AccountKey(callerAddr.val)

\* the account request of a caller with a certificate succeeded
C10_Witness ==
    /\ pc = "done"
    /\ inv.args = <<AccountArg>>
    /\ response.status = "OK"
    /\ inv.creator = "user1"

\* C11: a getCode request for a 20-byte address ends with OK or ERROR; when it
\* ends with OK the payload is the hex of the code of the account stored under
\* the lowercase hex of the address, and is empty when no account is stored
\* there; for an address a deploy returned whose account is still stored, the
\* payload is the hex of the runtime bytecode of that deploy.
C11_GetCode ==
    (pc = "done" /\ Len(inv.args) = 2 /\ inv.args[1] = GetCodeArg
     /\ ~DecodeString(inv.args[2]).err
     /\ Len(DecodeString(inv.args[2]).val) = AddressLength) =>
        LET key == ToLower(inv.args[2]) IN
        /\ response.status \in {"OK", "ERROR"}
        /\ response.status = "ERROR" => response.message = "failed to get contract account"
        /\ response.status = "OK" =>
              /\ key \notin DOMAIN ledger => response.payload = <<>>
              /\ key \in DOMAIN ledger =>
                    response.payload = EncodeToString(Unmarshal(ledger[key]).acct.EVMCode)
              /\ \A d \in deployed :
                    (d.addr = inv.args[2] /\ key \in DOMAIN ledger) =>
                        response.payload = EncodeToString(d.code)

\* getCode of a deployed contract returned its runtime bytecode
C11_Witness ==
    /\ pc = "done"
    /\ Len(inv.args) = 2
    /\ inv.args[1] = GetCodeArg
    /\ response.status = "OK"
    /\ \E d \in deployed : d.addr = inv.args[2] /\ response.payload = EncodeToString(d.code)
    /\ response.payload # <<>>

(* ------------------- receipts: the logs of the events ------------------ *)

\* C12: when getTransactionReceipt is asked for a transaction of the chain
\* whose event Flush set for N >= 1 buffered logs, and the ledger client
\* returns no error, the call returns a receipt with exactly N logs, the i-th
\* of them with log index i (counted from 0) and the data of the i-th buffered
\* log.
C12_ReceiptDecodesFlush ==
    (/\ rpc.method = "GetTransactionReceipt"
     /\ ~rpc.clientErr
     /\ BlocksOf(chain, strip0x(rpc.params[1])) # {}) =>
        \A env \in {QueryTransaction(chain, strip0x(rpc.params[1]), TRUE).tx} :
            Len(env.events) > 0 =>
                \A buffered \in {UnmarshalPayloads(env.events[1].payload)} :
                    /\ Len(buffered) >= 1
                    /\ ~rpc.err
                    /\ ~rpc.panic
                    /\ Len(reply.val.Logs) = Len(buffered)
                    /\ \A i \in 1..Len(buffered) :
                           /\ reply.val.Logs[i].Index = Quantity(i - 1)
                           /\ reply.val.Logs[i].Data =
                                  HexPrefix \o EncodeToString(buffered[i].Message.Data)

(* --------------------- receipts: the transaction index ----------------- *)

\* C13: when getTransactionReceipt or getTransactionByHash returns its reply
\* for a transaction id that a block of the chain contains, the reply's
\* transaction index is the hex of the position, counted from 0, of the
\* envelope with that transaction id in the data list of that block.
C13_TransactionIndex ==
    (/\ rpc.method \in {"GetTransactionReceipt", "GetTransactionByHash"}
     /\ ~rpc.err
     /\ ~rpc.panic) =>
        \A b \in 1..Len(chain) : \A j \in 1..Len(chain[b].data) :
            chain[b].data[j].txid = strip0x(rpc.params[1]) =>
                reply.val.TransactionIndex = HexPrefix \o FormatUint(j - 1)

\* a receipt and a transaction were returned for the second envelope of a block
C13_Witness ==
    /\ rpc.method \in {"GetTransactionReceipt", "GetTransactionByHash"}
    /\ ~rpc.err
    /\ ~rpc.panic
    /\ \E b \in 1..Len(chain) :
          /\ Len(chain[b].data) >= 2
          /\ chain[b].data[2].txid = strip0x(rpc.params[1])
    /\ reply.val.TransactionIndex = <<"0", "x", "1">>

(* ------------------------ receipts: the callee ------------------------- *)

C15_ReceiptStatusAndBloom ==
    (/\ rpc.method = "GetTransactionReceipt"
     /\ ~rpc.err
     /\ ~rpc.panic) =>
        /\ reply.val.GasUsed = 0
        /\ reply.val.CumulativeGasUsed = 0
        /\ "Status" \in DOMAIN reply.val
        /\ reply.val.Status = 1
        /\ "LogsBloom" \in DOMAIN reply.val
        /\ reply.val.LogsBloom = CreateBloom(reply.val.Logs)

(* ------------------------- results: the prefix ------------------------- *)

\* C16: every hex-valued result that a gateway method returns begins with
\* "0x": the replies of getCode, call, sendTransaction and accounts, and the
\* hash, address and number fields of receipts, of their logs, of transactions
\* and of blocks (an address field that is not set is empty).
C16_ResultsHavePrefix ==
    LET Prefixed(h) == HasPrefix(h, <<"0", "x">>)
        Unset(h) == h = <<>>
        Txn(t) == /\ Prefixed(t.Hash)
                  /\ Prefixed(t.BlockHash)
                  /\ Prefixed(t.BlockNumber)
                  /\ Prefixed(t.TransactionIndex)
                  /\ Prefixed(t.To)
                  /\ Prefixed(t.Input)
    IN  (rpc # NoRPC /\ ~rpc.err /\ ~rpc.panic) =>
            /\ rpc.method \in {"GetCode", "Call", "SendTransaction"} => Prefixed(reply.val)
            /\ rpc.method = "Accounts" =>
                   \A i \in 1..Len(reply.val) : Prefixed(reply.val[i])
            /\ rpc.method = "GetTransactionReceipt" =>
                   /\ Prefixed(reply.val.TransactionHash)
                   /\ Prefixed(reply.val.TransactionIndex)
                   /\ Prefixed(reply.val.BlockHash)
                   /\ Prefixed(reply.val.BlockNumber)
                   /\ Unset(reply.val.ContractAddress) \/ Prefixed(reply.val.ContractAddress)
                   /\ Unset(reply.val.To) \/ Prefixed(reply.val.To)
                   /\ \A i \in 1..Len(reply.val.Logs) :
                          /\ Prefixed(reply.val.Logs[i].Address)
                          /\ Prefixed(reply.val.Logs[i].BlockNumber)
                          /\ Prefixed(reply.val.Logs[i].TxHash)
                          /\ Prefixed(reply.val.Logs[i].TxIndex)
                          /\ Prefixed(reply.val.Logs[i].BlockHash)
                          /\ Prefixed(reply.val.Logs[i].Index)
            /\ rpc.method = "GetTransactionByHash" => Txn(reply.val)
            /\ rpc.method = "GetBlockByNumber" =>
                   /\ Prefixed(reply.val.Number)
                   /\ Prefixed(reply.val.Hash)
                   /\ Prefixed(reply.val.ParentHash)
                   /\ \A i \in 1..Len(reply.val.Transactions) :
                          IF rpc.params[2].val
                          THEN Txn(reply.val.Transactions[i])
                          ELSE Prefixed(reply.val.Transactions[i])

(* ------------------------ arguments: the prefix ------------------------ *)

\* C17: for every hex argument (address, data, transaction id, block number)
\* that a gateway method forwards, the value forwarded is the argument without
\* its first two characters when the argument starts with "0x", and the
\* argument itself otherwise; a forwarded value whose argument had the prefix
\* does not start with "0x".  (An empty "to" of sendTransaction stands for the
\* zero address and is no hex argument.)
C17_ForwardedWithoutPrefix ==
    rpc # NoRPC =>
        \A i \in 1..Len(rpc.sent) :
            \A given \in {IF rpc.method = "GetBlockByNumber"
                          THEN rpc.params[i].val ELSE rpc.params[i]} :
                given # <<>> =>
                    IF HasPrefix(given, <<"0", "x">>)
                    THEN /\ rpc.sent[i] = SubSeq(given, 3, Len(given))
                         /\ ~HasPrefix(rpc.sent[i], <<"0", "x">>)
                    ELSE rpc.sent[i] = given

(* ----------------------- errors of the ledger client ------------------- *)

\* C18: whenever the ledger client returns an error to a gateway method
\* (getCode, call, sendTransaction, accounts, getTransactionReceipt,
\* getTransactionByHash, getBlockByNumber), the method returns an error and the
\* reply is what it was before the call.
C18_LedgerErrorKeepsReply ==
    (/\ rpc.method \in {"GetCode", "Call", "SendTransaction", "Accounts",
                        "GetTransactionReceipt", "GetTransactionByHash",
                        "GetBlockByNumber"}
     /\ rpc.clientErr) =>
        /\ rpc.err
        /\ reply.val = rpc.before

(* ----------------------- blocks: the block argument -------------------- *)

\* C19: getBlockByNumber, called with a string and a flag, resolves the
\* string without its "0x" as follows, whatever the height h of the chain:
\* "latest" asks the ledger for block h - 1 (once the ledger has reported h),
\* "earliest" for block 0, "pending" returns an error and asks for no block, a
\* base-16 number of at most 64 bits asks for the block of that number, any
\* other string returns an error and asks for no block; a reply that is
\* returned has the hex of the number of the block asked for, which is the
\* number of the block the ledger holds there.
C19_BlockArgument ==
    (/\ rpc.method = "GetBlockByNumber"
     /\ Len(rpc.params) = 2
     /\ rpc.params[1].type = "string"
     /\ rpc.params[2].type = "bool") =>
        LET given == rpc.params[1].val
            input == IF HasPrefix(given, <<"0", "x">>) THEN SubSeq(given, 3, Len(given))
                     ELSE given
            digits == IF TrimZeros(input) = <<>> THEN <<"0">> ELSE ToLower(TrimZeros(input))
            isNumber == /\ Len(input) > 0
                        /\ \A i \in 1..Len(input) : FromHexChar(input[i]) >= 0
                        /\ Len(TrimZeros(input)) <= Uint64HexDigits
        IN  /\ IF input = <<"l", "a", "t", "e", "s", "t">>
               THEN \/ rpc.fetched = <<Len(chain) - 1>>
                    \/ rpc.clientErr /\ rpc.err /\ rpc.fetched = <<>>
               ELSE IF input = <<"e", "a", "r", "l", "i", "e", "s", "t">>
               THEN rpc.fetched = <<0>>
               ELSE IF input = <<"p", "e", "n", "d", "i", "n", "g">>
               THEN rpc.err /\ rpc.fetched = <<>>
               ELSE IF isNumber
               THEN /\ Len(rpc.fetched) = 1
                    /\ rpc.fetched[1] >= 0
                    /\ FormatUint(rpc.fetched[1]) = digits
               ELSE rpc.err /\ rpc.fetched = <<>>
            /\ ~rpc.err =>
                   /\ Len(rpc.fetched) = 1
                   /\ reply.val.Number = <<"0", "x">> \o FormatUint(rpc.fetched[1])
                   /\ chain[rpc.fetched[1] + 1].number = rpc.fetched[1]

\* the block 10 of a chain of 11 blocks was asked for as "0x0A" and returned
C19_Witness ==
    /\ rpc.method = "GetBlockByNumber"
    /\ Len(rpc.params) = 2
    /\ rpc.params[1].val = <<"0", "x", "0", "A">>
    /\ ~rpc.err
    /\ rpc.fetched = <<10>>
    /\ reply.val.Number = <<"0", "x", "a">>

(* --------------------- blocks: the transactions list ------------------- *)

C23_FailedWriteKeepsState ==
    [][(/\ pc = "vm"
        /\ vmCalls' = vmCalls + 1
        /\ last'.op = "SetStorage"
        /\ last'.err) =>
           /\ cache' = cache
           /\ ledger' = ledger
           /\ \A key \in StorageKeys :
                  GetStorage(ledger', cache', inv.locals.calleeAddr, key, TRUE) =
                  GetStorage(ledger, cache, inv.locals.calleeAddr, key, TRUE)]_vars

\* a write of a new value to a cell that the invocation had written failed,
\* and the cell still reads the value written first
C23_Witness ==
    /\ pc = "vm"
    /\ last.op = "SetStorage"
    /\ last.err
    /\ last.value # <<>>
    /\ CompKey(inv.locals.calleeAddr, last.key) \in DOMAIN cache
    /\ GetStorage(ledger, cache, inv.locals.calleeAddr, last.key, TRUE).val # last.value

(* ------------------ storage: the cache of an invocation ---------------- *)

\* C24: no cached storage value passes from one invocation to another.  The
\* cache is empty whenever no invocation runs and every invocation starts
\* with an empty cache; the only step that puts a value into the cache is a
\* set_storage of the running invocation that succeeded, which caches the
\* value it wrote; and every get_storage that succeeds returns the cached
\* value of the cell if there is one and the ledger's value otherwise.
C24_CacheOfOneInvocation ==
    /\ [](pc = "idle" => DOMAIN cache = {})
    /\ [][/\ pc = "idle" => DOMAIN cache' = {}
          /\ (cache' # cache /\ DOMAIN cache' # {}) =>
                 /\ pc = "vm"
                 /\ last'.op = "SetStorage"
                 /\ ~last'.err
                 /\ DOMAIN cache' = DOMAIN cache \cup {CompKey(inv.locals.calleeAddr, last'.key)}
                 /\ \A k \in DOMAIN cache' :
                        cache'[k] = IF k = CompKey(inv.locals.calleeAddr, last'.key)
                                    THEN last'.value ELSE cache[k]
          /\ (pc = "vm" /\ vmCalls' = vmCalls + 1 /\ last'.op = "GetStorage" /\ ~last'.err) =>
                 \A k \in {CompKey(inv.locals.calleeAddr, last'.key)} :
                     last'.ret = IF k \in DOMAIN cache THEN cache[k]
                                 ELSE IF k \in DOMAIN ledger THEN ledger[k] ELSE <<>>]_vars

\* the second invocation reads from the ledger, with an empty cache, the cell
\* that the first invocation wrote and cached
C24_Witness ==
    /\ txCount = 2
    /\ pc = "vm"
    /\ last.op = "GetStorage"
    /\ ~last.err
    /\ last.ret # <<>>
    /\ DOMAIN cache = {}

(* ------------------------ deploy: the order of steps ------------------- *)

\* C25: a deploy writes the contract account without code, then runs the VM,
\* then writes the account with the runtime bytecode, then flushes the events,
\* then returns the address.  When the VM runs, the account without code is on
\* the ledger and no event is set.  When the first write fails the invocation
\* ends with ERROR, the VM does not run, and nothing is written or set.  When
\* the VM has returned: with an error or with nil bytecode the invocation ends
\* with ERROR and the ledger and the events stay as they were; the ledger
\* changes only by the write of the account with the returned bytecode; an
\* event is set only after that write; an ERROR response comes with no event
\* set; an OK response carries the address, after the write and the flush.
C25_DeployOrder ==
    [][/\ (pc = "idle" /\ pc' = "vm" /\ inv'.locals.mode = "deploy") =>
             \A key \in {EncodeToString(inv'.locals.contractAddr)} :
                 /\ key \in DOMAIN ledger'
                 /\ Unmarshal(ledger'[key]).acct.EVMCode = <<>>
                 /\ events' = events
                 /\ response' = NoResponse
       /\ (/\ pc = "idle"
           /\ pc' = "done"
           /\ response' = Error("failed to create the contract account")) =>
             /\ ledger' = ledger
             /\ events' = events
       /\ (pc = "vm" /\ inv.locals.mode = "deploy" /\ pc' = "done" /\ last' = NoCall) =>
             \A key \in {EncodeToString(inv.locals.contractAddr)} :
             \A withCode \in {StubPutState(ledger, key,
                                  Marshal(Account(inv.locals.contractAddr, ContractPermFlags,
                                                  inv'.vm.bytes)))} :
                 /\ response'.status \in {"OK", "ERROR"}
                 /\ (inv'.vm.err \/ inv'.vm.nil) =>
                        /\ response'.status = "ERROR"
                        /\ ledger' = ledger
                        /\ events' = events
                 /\ ledger' \in {ledger, withCode}
                 /\ events' # events => ledger' = withCode
                 /\ response'.status = "ERROR" => events' = events
                 /\ response'.status = "OK" =>
                        /\ response'.payload = key
                        /\ ledger' = withCode
                        /\ Len(events') = Len(events) + (IF Len(EventCache) > 0 THEN 1 ELSE 0)]_vars

\* The VM of a deploy published logs and returned nil bytecode: the invocation
\* ended with ERROR, the account of the contract has no code, no event is set.
C25_Witness ==
    /\ pc = "done"
    /\ inv.locals.mode = "deploy"
    /\ inv.vm.nil
    /\ published # <<>>
    /\ response.status = "ERROR"
    /\ events = <<>>
    /\ Unmarshal(ledger[EncodeToString(inv.locals.contractAddr)]).acct.EVMCode = <<>>

(* -------------------- Invoke: failures before the VM ------------------- *)

\* C26: an Invoke of two arguments, the first not "getCode", whose callee is
\* no valid hex or does not decode to an address of 20 bytes, whose caller
\* address cannot be derived, or whose input is no valid hex, ends with an
\* ERROR response without a ledger write or delete, without a run of the VM
\* and without an event set; a getCode request and an account request end
\* without a ledger write and without an event set, too.
C26_FailuresWriteNothing ==
    [][(pc = "idle" /\ pc' # "idle") =>
           \A args \in {inv'.args} :
               /\ (/\ Len(args) = 2
                   /\ args[1] # <<"g", "e", "t", "C", "o", "d", "e">>
                   /\ \/ DecodeString(args[1]).err
                      \/ Len(DecodeString(args[1]).val) # AddressLength
                      \/ getCallerAddress(inv'.creator, TRUE).err
                      \/ response'.message = "failed to get caller address"
                      \/ DecodeString(args[2]).err) =>
                      /\ response'.status = "ERROR"
                      /\ pc' = "done"
                      /\ vmCalls' = vmCalls
                      /\ ledger' = ledger
                      /\ events' = events
               /\ (\/ Len(args) = 2 /\ args[1] = <<"g", "e", "t", "C", "o", "d", "e">>
                   \/ args = << <<"a", "c", "c", "o", "u", "n", "t">> >>) =>
                      /\ pc' = "done"
                      /\ ledger' = ledger
                      /\ events' = events]_vars

\* an Invoke with a valid callee and caller failed on its input, after an
\* earlier transaction had written the ledger
C26_Witness ==
    /\ pc = "done"
    /\ Len(inv.args) = 2
    /\ ~DecodeString(inv.args[1]).err
    /\ DecodeString(inv.args[2]).err
    /\ response = Error("failed to decode input bytes")
    /\ ledger = ledger0
    /\ deployed # {}

\* C30: every call of a blockchain hook by the VM (last block height, last
\* block time, block hash of any height) panics: the invocation ends at that
\* step without a response, nothing is returned to the VM, the ledger and the
\* events are untouched by the call, and the writes of the invocation are
\* dropped when the transaction ends, so that no result depends on the
\* blockchain information.
C30_BlockchainHooksPanic ==
    /\ [][(pc = "vm" /\ vmCalls' = vmCalls + 1 /\ last'.op \in BlockchainHooks) =>
            /\ last'.panic
            /\ last'.ret = <<>>
            /\ pc' = "done"
            /\ response'.status = "PANIC"
            /\ response'.payload = <<>>
            /\ ledger' = ledger
            /\ events' = events]_vars
    /\ [][(pc = "done" /\ pc' = "idle" /\ last.op \in BlockchainHooks) =>
            ledger' = ledger0]_vars
    /\ [](response.status = "OK" => last.op \notin BlockchainHooks)

\* a BlockHash call ended an invocation that had written to the ledger
C30_Witness ==
    /\ pc = "done"
    /\ last.op = "BlockHash"
    /\ response.status = "PANIC"
    /\ ledger # ledger0

\* C27: GetTransactionReceipt ends, for every transaction the ledger returns,
\* with a receipt or with an error: it never panics while it assembles the
\* receipt, also for a transaction whose arguments are not the two of a
\* deploy or a call.
C27_ReceiptOrError ==
    (rpc.method = "GetTransactionReceipt" /\ ~rpc.clientErr) =>
        /\ ~rpc.panic
        /\ rpc.err \/ reply.val.TransactionHash = rpc.params[1]

\* C28: the gateway reports one block-hash string for a block wherever it
\* reports the block: the blockHash of a receipt, the blockHash of each log of
\* the receipt and the blockHash of getTransactionByHash are the hash that
\* getBlockByNumber reports for the block of that number.
C28_OneBlockHash ==
    (rpc # NoRPC /\ ~rpc.err /\ ~rpc.panic
     /\ rpc.method \in {"GetTransactionReceipt", "GetTransactionByHash"}) =>
        \E i \in 1..Len(chain) :
            \E hash \in {getBlockByNumber(chain, chain[i].number, FALSE, TRUE).blk.Hash} :
                /\ reply.val.BlockNumber = Quantity(chain[i].number)
                /\ reply.val.BlockHash = hash
                /\ rpc.method = "GetTransactionReceipt" =>
                       \A k \in 1..Len(reply.val.Logs) : reply.val.Logs[k].BlockHash = hash

\* C21: the bloom of two lists of logs joined is the bitwise OR of the blooms
\* of the two lists; the bloom does not depend on the order of the logs nor on
\* a log that occurs twice; the bloom of no logs has no bit set; every bit of
\* a bloom is one of the 2048 bits.
C21_BloomOr ==
    (lib.call = "CreateBloom" /\ lib.done) =>
        /\ lib.out.ab = lib.out.a \cup lib.out.b
        /\ lib.out.ba = lib.out.ab
        /\ lib.out.aa = lib.out.a
        /\ (lib.in.A = <<>> => lib.out.a = {})
        /\ lib.out.ab \subseteq 0..2047

\* the blooms of two lists of logs were joined, neither within the other
C21_Witness ==
    /\ lib.call = "CreateBloom"
    /\ lib.done
    /\ Len(lib.in.A) = MaxLogs
    /\ Len(lib.in.B) > 0
    /\ ~(lib.out.a \subseteq lib.out.b)
    /\ ~(lib.out.b \subseteq lib.out.a)

\* C22: a method name namespace_method is dispatched to the same service
\* method, the part after the namespace, whether the namespace is eth, web3
\* or net; a name of another namespace is answered with the error "Service
\* not found".
C22_NamespacesDispatch ==
    (lib.call = "ReadRequestHeader" /\ lib.done /\ lib.in.codecOk) =>
        \A parts \in {Split(lib.in.ServiceMethod, "_")} :
            /\ (Len(parts) = 2 /\ parts[1] \in {EthNamespace, Web3Namespace, NetNamespace}) =>
                   /\ ~lib.out.err
                   /\ lib.out.ServiceMethod = ServicePrefix \o Title(parts[2])
            /\ parts[1] \notin {EthNamespace, Web3Namespace, NetNamespace} =>
                   /\ lib.out.err
                   /\ lib.out.message = "Service not found"

\* C29: a getBlockByNumber("latest") request that is served while blocks are
\* appended, and to which the ledger client returns no error, succeeds; its
\* reply is the block numbered one less than the height it read, as that
\* block is on the chain, and that block was the newest block at some moment
\* while the request was served.  A step of the gateway changes the reply of
\* a request only when it is that request's own read of the block.
C29_LatestInFlight ==
    /\ [](\A i \in DOMAIN flight :
            (flight[i].pc = "done" /\ ~flight[i].failed) =>
                /\ ~flight[i].err
                /\ flight[i].reply.Number = Quantity(flight[i].height - 1)
                /\ flight[i].reply =
                       getBlockByNumber(chain, flight[i].height - 1, flight[i].full, TRUE).blk
                /\ (flight[i].height - 1) \in flight[i].tops)
    /\ [][\A i \in DOMAIN flight :
            flight'[i].reply # flight[i].reply =>
                /\ flight[i].pc = "block"
                /\ flight'[i].pc = "done"
                /\ \A j \in DOMAIN flight \ {i} : flight'[j] = flight[j]]_vars

\* a request has returned a block that is no longer the newest: blocks were
\* appended after it read the height, while another request is being served
C29_Witness ==
    \E i \in DOMAIN flight, j \in DOMAIN flight :
        /\ i # j
        /\ flight[i].pc = "done"
        /\ ~flight[i].err
        /\ Len(chain) > flight[i].height
        /\ Cardinality(flight[i].tops) > 1
        /\ flight[j].pc = "block"
        /\ flight[j].height > flight[i].height

====
